---------------------------- MODULE Spec2Model ----------------------------
(***************************************************************************)
(* Model of the data pipeline of Interactive-Data-Visualization-JS:        *)
(* DataEngine.loadData and its helpers (src/src/core/DataEngine.js), the   *)
(* DataLoader fetch/parse utility, and the bounded TTL cache the engine    *)
(* is constructed with.                                                    *)
(*                                                                         *)
(* JavaScript values are represented as follows.                           *)
(*   - a string is a sequence of one-character strings (so that split,     *)
(*     trim and replace are modelled character by character);              *)
(*   - a scalar stored in an object is the text of its JSON literal        *)
(*     ("1", "\"a\"", "true", "null");                                     *)
(*   - an object is the sequence of its <<key, value>> pairs in insertion  *)
(*     order;                                                              *)
(*   - a value handled by the engine is tagged with its JavaScript kind:   *)
(*     [t |-> "string" | "array" | "object" | "number", v |-> ...].        *)
(***************************************************************************)
EXTENDS Integers, Sequences, FiniteSets, TLC

(***************************************************************************)
(* Bounds of the model.                                                    *)
(***************************************************************************)
\* number of loadData / DataLoader.load calls issued in one behaviour
MaxCalls == 2
\* longest array given to _normalizeData on its own
MaxItems == 3
\* longest array and largest batchSize given to _transformData on its own
MaxLen == 11
MaxBatch == 3
\* last value of the clock (one clock unit is one cache TTL, 300000 ms)
MaxTime == 2

(***************************************************************************)
(* Configuration of the engine under analysis.                             *)
(***************************************************************************)
\* new DataEngine({ maxCacheSize: 2, batchSize: 2 })
maxCacheSize == 2
batchSize == 2
\* ttl: 300000 ms, in clock units
ttl == 1
\* the batch loop yields when i % (batchSize * 10) === 0
yieldEvery == 10

(***************************************************************************)
(* State                                                                   *)
(***************************************************************************)
VARIABLES
  now,             \* performance.now() / Date.now(), in clock units
  validateData,    \* this.config.validateData
  cache,           \* this.cache
  loadedDatasets,  \* this.loadedDatasets: a function from cache keys to packages
  metrics,         \* this.metrics
  isLoading,       \* this.isLoading
  clearedEvents,   \* whether 'cleared' has been emitted
  calls,           \* the calls of the behaviour: locals, events, result
  norm,            \* one call of _normalizeData: its argument and its result
  batchRun,        \* one call of _transformData: its locals and its position
  qt,              \* a QuadTree: its nodes, and the inserts made into it
  lod,             \* an LODManager's chart, and the updateLOD calls made
  view,            \* a ZoomPanController: its transform, and the zoomAt calls made
  zoomPan,         \* a ZoomPan: its fields, its container's listeners, callbacks run
  worker,          \* the offload worker: requests posted, responses posted back
  single           \* one call of a function analysed on its own: arguments, result

\* the state of the DataEngine and of the DataLoader
engineVars == <<now, validateData, cache, loadedDatasets, metrics, isLoading,
                clearedEvents, calls>>

\* the state of the functions and classes analysed on their own
libVars == <<norm, batchRun, qt>>

\* the state of the interaction classes, of the worker and of single calls
uiVars == <<lod, view, zoomPan, worker, single>>

vars == <<engineVars, libVars, uiVars>>

\* the values of norm, batchRun and qt when they are not under analysis
NoNorm == [data |-> <<>>, result |-> <<>>]
NoBatchRun == [pc |-> "none"]
NoQuadTree == [nodes |-> <<>>]

\* the values of lod, view, zoomPan and worker when they are not under analysis
NoLOD == [pc |-> "none"]
NoView == [pc |-> "none"]
NoZoomPan == [pc |-> "none"]
NoWorker == [pc |-> "none"]
NoSingle == [pc |-> "none"]

\* nothing but the engine is under analysis / the engine is not
LibRest == norm = NoNorm /\ batchRun = NoBatchRun /\ qt = NoQuadTree
UiRest ==
  lod = NoLOD /\ view = NoView /\ zoomPan = NoZoomPan /\ worker = NoWorker /\ single = NoSingle

(***************************************************************************)
(* Strings                                                                 *)
(***************************************************************************)
RECURSIVE Join(_)
\* the TLA+ string spelled by a sequence of characters
Join(cs) == IF cs = <<>> THEN "" ELSE Head(cs) \o Join(Tail(cs))

RECURSIVE JoinWith(_, _)
\* Array.prototype.join(sep) on a sequence of TLA+ strings
JoinWith(ss, sep) ==
  IF ss = <<>> THEN ""
  ELSE IF Len(ss) = 1 THEN ss[1]
  ELSE ss[1] \o sep \o JoinWith(Tail(ss), sep)

(***************************************************************************)
(* Objects: sequences of <<key, value>> pairs                              *)
(***************************************************************************)
HasKey(o, k) == \E i \in 1..Len(o) : o[i][1] = k

\* property read: undefined when the key is absent
GetProp(o, k) ==
  IF HasKey(o, k) THEN o[CHOOSE i \in 1..Len(o) : o[i][1] = k][2]
  ELSE "undefined"

\* property write: an existing key keeps its position, a new key is appended
SetProp(o, k, v) ==
  IF HasKey(o, k) THEN [i \in 1..Len(o) |-> IF o[i][1] = k THEN <<k, v>> ELSE o[i]]
  ELSE Append(o, <<k, v>>)

RECURSIVE SpreadInto(_, _)
\* { ...target, ...src }: every own property of src written into target
SpreadInto(target, src) ==
  IF src = <<>> THEN target
  ELSE SpreadInto(SetProp(target, Head(src)[1], Head(src)[2]), Tail(src))

\* JavaScript truthiness of a scalar literal
Falsy(v) == v \in {"undefined", "null", "false", "0", "\"\"", "NaN"}

\* JSON.stringify of an object: properties whose value is undefined are skipped
StringifyObject(o) ==
  LET kept == SelectSeq(o, LAMBDA p : p[2] # "undefined")
      parts == [i \in 1..Len(kept) |-> "\"" \o kept[i][1] \o "\":" \o kept[i][2]]
  IN "{" \o JoinWith(parts, ",") \o "}"

\* JSON.stringify of an array of objects
StringifyArray(a) ==
  "[" \o JoinWith([i \in 1..Len(a) |-> StringifyObject(a[i])], ",") \o "]"

\* JSON.stringify of a tagged value
Stringify(x) ==
  CASE x.t = "array" -> StringifyArray(x.v)
    [] x.t = "object" -> StringifyObject(x.v)
    [] x.t = "string" -> "\"" \o Join(x.v) \o "\""
    [] x.t = "number" -> ToString(x.v)

\* String.prototype.split(sep) with a one-character separator
RECURSIVE Split(_, _)
Split(cs, sep) ==
  IF \A i \in 1..Len(cs) : cs[i] # sep THEN <<cs>>
  ELSE LET i == CHOOSE j \in 1..Len(cs) :
                  cs[j] = sep /\ \A k \in 1..(j - 1) : cs[k] # sep
       IN <<SubSeq(cs, 1, i - 1)>> \o Split(SubSeq(cs, i + 1, Len(cs)), sep)

IsSpace(ch) == ch \in {" ", "\t", "\r", "\n"}

RECURSIVE TrimStart(_)
TrimStart(cs) ==
  IF cs # <<>> /\ IsSpace(Head(cs)) THEN TrimStart(Tail(cs)) ELSE cs

RECURSIVE TrimEnd(_)
TrimEnd(cs) ==
  IF cs # <<>> /\ IsSpace(cs[Len(cs)]) THEN TrimEnd(SubSeq(cs, 1, Len(cs) - 1)) ELSE cs

\* String.prototype.trim
Trim(cs) == TrimEnd(TrimStart(cs))

\* the JSON literal of a JavaScript string
StrLit(cs) == "\"" \o Join(cs) \o "\""

(***************************************************************************)
(* DataEngine: pure helpers                                                *)
(***************************************************************************)
\* cell.trim().replace(/"/g, ''): every double quote is removed
EngineCell(cs) == SelectSeq(Trim(cs), LAMBDA ch : ch # "\"")

\* DataEngine._parseCSV(csvText): an array of objects with string fields
_parseCSV(csvText) ==
  LET lines == SelectSeq(Split(csvText, "\n"), LAMBDA l : Trim(l) # <<>>)
      cells(l) == LET raw == Split(l, ",")
                  IN [i \in 1..Len(raw) |-> EngineCell(raw[i])]
      headers == cells(lines[1])
      RowOf(values) ==
        LET F[n \in 0..Len(headers)] ==
              IF n = 0 THEN <<>>
              ELSE SetProp(F[n - 1], Join(headers[n]),
                           IF n <= Len(values) /\ values[n] # <<>>
                           THEN StrLit(values[n]) ELSE "\"\"")
        IN F[Len(headers)]
  IN IF lines = <<>> THEN <<>>
     ELSE [i \in 1..(Len(lines) - 1) |-> RowOf(cells(lines[i + 1]))]

\* The transform functions handed to loadData.  tagA and tagB are two
\* closures of the same arrow function, item => ({ ...item, tag }), that
\* captured different values of tag; needV throws on an item without a
\* truthy v.
TransformSource(tr) ==
  CASE tr \in {"tagA", "tagB"} -> "item => ({ ...item, tag })"
    [] tr = "needV" -> "item => { if (!item.v) throw new Error('no v'); return item; }"

\* whether transformer(item) throws
TransformThrows(tr, item) == tr = "needV" /\ Falsy(GetProp(item, "v"))

\* transformer(item) when it does not throw
TransformItem(tr, item) ==
  CASE tr = "tagA" -> SetProp(item, "tag", "\"A\"")
    [] tr = "tagB" -> SetProp(item, "tag", "\"B\"")
    [] tr = "needV" -> item

\* the own enumerable properties of a non-array value, as an object
AsObject(x) ==
  CASE x.t = "object" -> x.v
    [] x.t = "string" -> [i \in 1..Len(x.v) |-> <<ToString(i - 1), StrLit(<<x.v[i]>>)>>]
    [] x.t = "number" -> <<>>

\* mutant: the key carries the time of the call
_generateCacheKey_stamped(source, options) ==
  (IF source.t = "string" THEN Join(source.v) ELSE Stringify(source))
    \o ":" \o ToString(now)

\* DataEngine._generateCacheKey(source, options)
_generateCacheKey(source, options) ==
  LET key == IF source.t = "string" THEN Join(source.v) ELSE Stringify(source)
      optionsKey == StringifyObject(<<
          <<"format", IF options.format = "undefined" THEN "undefined"
                      ELSE "\"" \o options.format \o "\"">>,
          <<"transform", IF options.transform # "none"
                         THEN "\"" \o TransformSource(options.transform) \o "\""
                         ELSE "null">> >>)
  IN key \o ":" \o optionsKey

\* mutant: the id is written after the spread, { ...item, id: item.id || index }
_normalizeData_idLast(data) ==
  IF data.t = "array"
  THEN [t |-> "array",
        v |-> [n \in 1..Len(data.v) |->
                 LET item == data.v[n]
                     id == IF Falsy(GetProp(item, "id")) THEN ToString(n - 1)
                           ELSE GetProp(item, "id")
                 IN SetProp(item, "id", id)]]
  ELSE data

\* DataEngine._normalizeData(data)
_normalizeData(data) ==
  IF data.t = "array"
  THEN [t |-> "array",
        v |-> [n \in 1..Len(data.v) |->
                 LET item == data.v[n]
                     id == IF Falsy(GetProp(item, "id")) THEN ToString(n - 1)
                           ELSE GetProp(item, "id")
                 IN SpreadInto(<< <<"id", id>> >>, item)]]
  ELSE data

\* Object.keys(x).length
KeyCount(x) == IF x.t = "array" THEN Len(x.v) ELSE Len(AsObject(x))

\* DataEngine._calculateStatistics(data); firstItem and lastItem are the
\* one-element sequence of the item, or <<>> for null
_calculateStatistics(data) ==
  IF data.t # "array" THEN [type |-> "object", keys |-> KeyCount(data)]
  ELSE [type |-> "array",
        length |-> Len(data.v),
        memoryUsage |-> Len(StringifyArray(data.v)),
        firstItem |-> IF data.v = <<>> THEN <<>> ELSE <<data.v[1]>>,
        lastItem |-> IF data.v = <<>> THEN <<>> ELSE <<data.v[Len(data.v)]>>]

Min(a, b) == IF a < b THEN a ELSE b

\* transformer(data) for data that is not an array: <<result>>, or <<>> when
\* the transformer throws
TransformValue(tr, data) ==
  IF TransformThrows(tr, AsObject(data)) THEN <<>>
  ELSE <<[t |-> "object", v |-> TransformItem(tr, AsObject(data))]>>

\* batch.map(transformer) on items from..to of data: the mapped items, and
\* the number of transformer invocations made (up to and including one that
\* throws)
MapItems(tr, data, from, to) ==
  LET bad == {n \in from..to : TransformThrows(tr, data[n])}
      stop == IF bad = {} THEN to
              ELSE CHOOSE n \in bad : \A m \in bad : n <= m
  IN [threw |-> bad # {},
      items |-> [n \in 1..(to - from + 1) |-> TransformItem(tr, data[from + n - 1])],
      invoked |-> stop - from + 1]

\* The batch loop of DataEngine._transformData, run from loop index i until
\* it yields, returns or throws.  st = "yield": suspended in the setTimeout
\* of the batch at index i - batchSize; "done": the loop ended, results is
\* the return value; "throw": the transformer threw.
RECURSIVE RunBatches(_, _, _, _, _)
RunBatches(tr, data, i, results, invoked) ==
  IF i >= Len(data)
  THEN [st |-> "done", i |-> i, results |-> results, invoked |-> invoked]
  ELSE LET m == MapItems(tr, data, i + 1, Min(i + batchSize, Len(data)))
       IN IF m.threw
          THEN [st |-> "throw", i |-> i, results |-> results,
                invoked |-> invoked + m.invoked]
          ELSE IF i % (batchSize * yieldEvery) = 0
          THEN [st |-> "yield", i |-> i + batchSize, results |-> results \o m.items,
                invoked |-> invoked + m.invoked]
          ELSE RunBatches(tr, data, i + batchSize, results \o m.items,
                          invoked + m.invoked)

\* DataEngine._transformData(data, transformer), up to its first suspension:
\* st = "done" (the promise is resolved with value), "throw" (rejected) or
\* "yield" (suspended in the batch loop)
_transformData(data, tr) ==
  IF data.t = "array"
  THEN IF Len(data.v) > batchSize
       THEN RunBatches(tr, data.v, 0, <<>>, 0)
       ELSE LET m == MapItems(tr, data.v, 1, Len(data.v))
            IN [st |-> IF m.threw THEN "throw" ELSE "done", i |-> 0,
                results |-> m.items, invoked |-> m.invoked]
  ELSE LET r == TransformValue(tr, data)
       IN [st |-> IF r = <<>> THEN "throw" ELSE "done", i |-> 0,
           results |-> r, invoked |-> 1]

(***************************************************************************)
(* DataValidator and DataCache                                             *)
(***************************************************************************)
\* DataValidator.validate(data) -> { valid, errors }: an array is rejected
\* when it holds a record without any field
validate(data) ==
  LET empties == IF data.t = "array"
                 THEN SelectSeq([n \in 1..Len(data.v) |-> n],
                                LAMBDA n : data.v[n] = <<>>)
                 ELSE <<>>
  IN [valid |-> empties = <<>>,
      errors |-> [k \in 1..Len(empties) |->
                    "record " \o ToString(empties[k] - 1) \o " is empty"]]

\* A cache is the sequence of its entries, oldest insertion first.
Expired(e, t) == t - e.insertedAt > e.ttl

CacheHas(c, key) == \E n \in 1..Len(c) : c[n].key = key

CacheEntry(c, key) == c[CHOOSE n \in 1..Len(c) : c[n].key = key]

\* DataCache.get(key): <<value>>, or <<>> when the key is absent or expired
CacheGet(c, key, t) ==
  IF CacheHas(c, key) /\ ~Expired(CacheEntry(c, key), t)
  THEN <<CacheEntry(c, key).value>> ELSE <<>>

\* mutant: a get makes the entry it returns the most recent one
CacheAfterGet_touches(c, key, t) ==
  IF CacheHas(c, key)
  THEN IF Expired(CacheEntry(c, key), t)
       THEN SelectSeq(c, LAMBDA e : e.key # key)
       ELSE Append(SelectSeq(c, LAMBDA e : e.key # key), CacheEntry(c, key))
  ELSE c

\* the cache after DataCache.get(key): an expired entry is removed
CacheAfterGet(c, key, t) ==
  IF CacheHas(c, key) /\ Expired(CacheEntry(c, key), t)
  THEN SelectSeq(c, LAMBDA e : e.key # key) ELSE c

\* the cache after DataCache.set(key, value)
CacheAfterSet(c, key, value, t) ==
  LET others == SelectSeq(c, LAMBDA e : e.key # key)
      room == IF Len(others) >= maxCacheSize THEN Tail(others) ELSE others
  IN Append(room, [key |-> key, value |-> value, insertedAt |-> t, ttl |-> ttl])

\* DataCache.size
CacheSize(c) == Len(c)

(***************************************************************************)
(* DataLoader: pure helpers                                                *)
(***************************************************************************)
\* String.prototype.toLowerCase, on the letters that occur in the model
LowerChar(ch) ==
  CASE ch = "J" -> "j" [] ch = "S" -> "s" [] ch = "O" -> "o" [] ch = "N" -> "n"
    [] ch = "C" -> "c" [] ch = "V" -> "v" [] ch = "X" -> "x" [] ch = "M" -> "m"
    [] ch = "L" -> "l" [] ch = "T" -> "t" [] OTHER -> ch

ToLowerCase(cs) == [i \in 1..Len(cs) |-> LowerChar(cs[i])]

\* DataLoader._detectFormat(url)
DataLoader_detectFormat(url) ==
  LET dotted == Split(url, ".")
      extension == Split(ToLowerCase(dotted[Len(dotted)]), "?")[1]
  IN CASE extension = <<"j", "s", "o", "n">> -> "json"
       [] extension = <<"c", "s", "v">> -> "csv"
       [] extension = <<"x", "m", "l">> -> "xml"
       [] OTHER -> "text"

\* cell.trim().replace(/^"(.*)"$/, '$1'): one pair of surrounding quotes is
\* stripped
LoaderCell(cs) ==
  LET c == Trim(cs)
  IN IF Len(c) >= 2 /\ c[1] = "\"" /\ c[Len(c)] = "\""
        /\ \A i \in 1..Len(c) : c[i] # "\n"
     THEN SubSeq(c, 2, Len(c) - 1) ELSE c

\* DataLoader._parseCSV(text, { delimiter, header }): with a header row an
\* array of objects, else the rows as arrays of cells
DataLoader_parseCSV(text, delimiter, header) ==
  LET lines == Split(Trim(text), "\n")
      data == [i \in 1..Len(lines) |->
                 LET raw == Split(lines[i], delimiter)
                 IN [j \in 1..Len(raw) |-> LoaderCell(raw[j])]]
      headers == data[1]
      RowOf(row) ==
        LET F[n \in 0..Len(headers)] ==
              IF n = 0 THEN <<>>
              ELSE SetProp(F[n - 1], Join(headers[n]),
                           IF n <= Len(row) /\ row[n] # <<>>
                           THEN StrLit(row[n]) ELSE "\"\"")
        IN F[Len(headers)]
  IN IF Len(lines) = 0 THEN [t |-> "array", v |-> <<>>]
     ELSE IF header /\ Len(data) > 0
     THEN [t |-> "array", v |-> [i \in 1..(Len(data) - 1) |-> RowOf(data[i + 1])]]
     ELSE [t |-> "rows", v |-> data]

(***************************************************************************)
(* The calls made in a behaviour are drawn from InputTable; the responses  *)
(* of the server from ResponseTable.                                       *)
(***************************************************************************)
arrA == [t |-> "array", v |-> << << <<"v", "1">> >>, << <<"id", "7">>, <<"v", "2">> >> >>]
arrB == [t |-> "array", v |-> << << <<"v", "1">> >>, << <<"v", "2">> >>, << <<"v", "0">> >> >>]
arrE == [t |-> "array", v |-> << <<>> >>]
urlD == [t |-> "string", v |-> <<"/", "d", ".", "J", "S", "O", "N", "?", "v", "=", "1">>]

NoOptions == [format |-> "undefined", transform |-> "none", cache |-> TRUE,
              headers |-> "none", timeout |-> 0]

\* api "engine": dataEngine.loadData(source, options);
\* api "loader": dataLoader.load(source, options.format, options)
InputTable == <<
  [api |-> "engine", source |-> arrA, options |-> NoOptions],
  [api |-> "engine", source |-> arrA, options |-> [NoOptions EXCEPT !.transform = "tagA"]],
  [api |-> "engine", source |-> arrB, options |-> [NoOptions EXCEPT !.transform = "tagB"]],
  [api |-> "engine", source |-> arrB, options |-> [NoOptions EXCEPT !.transform = "needV"]],
  [api |-> "engine", source |-> arrE, options |-> [NoOptions EXCEPT !.transform = "tagA"]],
  [api |-> "engine", source |-> urlD, options |-> NoOptions],
  [api |-> "engine", source |-> urlD,
   options |-> [NoOptions EXCEPT !.cache = FALSE, !.format = "json", !.timeout = 5000]],
  [api |-> "engine", source |-> [t |-> "number", v |-> 7], options |-> NoOptions],
  [api |-> "loader", source |-> urlD, options |-> NoOptions],
  [api |-> "engine", source |-> arrA, options |-> [NoOptions EXCEPT !.cache = FALSE]],
  [api |-> "engine", source |-> arrA, options |-> [NoOptions EXCEPT !.transform = "tagB"]],
  [api |-> "engine", source |-> urlD,
   options |-> [NoOptions EXCEPT !.headers = "auth", !.timeout = 5000]] >>

Inputs == 1..Len(InputTable)

\* json: <<value>> when the body is well-formed JSON, <<>> when
\* response.json() rejects with a SyntaxError
ResponseTable == <<
  [ok |-> TRUE, status |-> 200, statusText |-> "OK", contentType |-> <<"a", "p", "p", "l", "i", "c", "a", "t", "i", "o", "n", "/", "j", "s", "o", "n", ";", " ", "c", "h", "a", "r", "s", "e", "t", "=", "u", "t", "f", "-", "8">>,
   text |-> <<"[", "{", "\"", "v", "\"", ":", "5", "}", "]">>,
   json |-> <<[t |-> "array", v |-> << << <<"v", "5">> >> >>]>>, xml |-> FALSE],
  [ok |-> TRUE, status |-> 200, statusText |-> "OK", contentType |-> <<"t", "e", "x", "t", "/", "c", "s", "v">>,
   text |-> <<"x", ",", "y", "\n", "1", ",", "2", "\n", "3", ",", "4">>,
   json |-> <<>>, xml |-> FALSE],
  [ok |-> FALSE, status |-> 404, statusText |-> "Not Found", contentType |-> <<"t", "e", "x", "t", "/", "p", "l", "a", "i", "n">>,
   text |-> <<>>, json |-> <<>>, xml |-> FALSE],
  [ok |-> FALSE, status |-> 500, statusText |-> "Internal Server Error",
   contentType |-> <<"t", "e", "x", "t", "/", "p", "l", "a", "i", "n">>, text |-> <<>>, json |-> <<>>, xml |-> FALSE] >>

Responses == 1..Len(ResponseTable)

\* String.prototype.includes
Includes(cs, sub) ==
  \E i \in 1..(Len(cs) - Len(sub) + 1) : SubSeq(cs, i, i + Len(sub) - 1) = sub

APPJSON == <<"a", "p", "p", "l", "i", "c", "a", "t", "i", "o", "n", "/", "j", "s", "o", "n">>
TEXTCSV == <<"t", "e", "x", "t", "/", "c", "s", "v">>

Calls == 1..MaxCalls

\* this.config.timeout: options.timeout || 30000
configTimeout == 30000
\* DataLoader: config.timeout || 10000
loaderTimeout == 10000

ZeroMetrics == [totalLoaded |-> 0, cacheHits |-> 0, cacheMisses |-> 0,
                loadTime |-> 0, transformTime |-> 0]

\* A call that has not been made.  raw, ret and err hold at most one value;
\* status is the status of the response received (0: none); sharedWith is
\* the set of calls that were suspended with the same cache key when the
\* call was made; cacheChanged tells whether a segment of the call left the
\* cache different from how it found it; clearedInFlight tells whether clear()
\* ran while the call was suspended; fetches, validations, parses and
\* transformCalls count what the call did.
IdleCall == [pc |-> "idle", inp |-> 0, key |-> "", startTime |-> 0,
             transformStart |-> 0, timer |-> 0, aborted |-> FALSE,
             raw |-> <<>>, i |-> 0, results |-> <<>>, pending |-> "none",
             ret |-> <<>>, err |-> <<>>, events |-> <<>>, fromCache |-> FALSE,
             status |-> 0, sharedWith |-> {}, cacheChanged |-> FALSE,
             clearedInFlight |-> FALSE,
             fetches |-> 0, validations |-> 0, parses |-> 0, transformCalls |-> 0]

EngineInit ==
  /\ now = 0
  /\ cache = <<>>
  /\ loadedDatasets = <<>>
  /\ metrics = ZeroMetrics
  /\ isLoading = FALSE
  /\ clearedEvents = FALSE
  /\ calls = [c \in Calls |-> IdleCall]

Init ==
  /\ EngineInit
  /\ validateData \in BOOLEAN
  /\ norm = NoNorm /\ batchRun = NoBatchRun /\ qt = NoQuadTree
  /\ UiRest

Source(rec) == InputTable[rec.inp].source
Options(rec) == InputTable[rec.inp].options

JsError(name, message) == [name |-> name, message |-> message]

\* Map.prototype.set
MapSet(m, k, v) == [x \in DOMAIN m \cup {k} |-> IF x = k THEN v ELSE m[x]]

(***************************************************************************)
(* DataEngine.loadData, in the segments between its suspension points.     *)
(* rec is the call's record, m the metrics and ch the cache as the segment *)
(* has left them so far, il the value of isLoading if the call suspends.   *)
(***************************************************************************)
\* mutant: the catch block rethrows without emitting loadError
Fail_silent(c, rec, m, ch, error) ==
  /\ calls' = [calls EXCEPT ![c] =
       [rec EXCEPT !.pc = "failed", !.err = <<error>>,
                   !.cacheChanged = @ \/ ch # cache]]
  /\ metrics' = m
  /\ cache' = ch
  /\ isLoading' = FALSE
  /\ UNCHANGED loadedDatasets

\* mutant: a failing call announces a completion before its error
Fail_alsoCompletes(c, rec, m, ch, error) ==
  /\ calls' = [calls EXCEPT ![c] =
       [rec EXCEPT !.pc = "failed", !.err = <<error>>,
                   !.cacheChanged = @ \/ ch # cache,
                   !.events = @ \o <<[type |-> "loadComplete",
                                      source |-> Source(rec), fromCache |-> FALSE],
                                     [type |-> "loadError",
                                      source |-> Source(rec), error |-> error]>>]]
  /\ metrics' = m
  /\ cache' = ch
  /\ isLoading' = FALSE
  /\ UNCHANGED loadedDatasets

\* lines 196-201: catch, emit loadError, rethrow; finally isLoading = false
Fail(c, rec, m, ch, error) ==
  /\ calls' = [calls EXCEPT ![c] =
       [rec EXCEPT !.pc = "failed", !.err = <<error>>,
                   !.cacheChanged = @ \/ ch # cache,
                   !.events = Append(@, [type |-> "loadError",
                                         source |-> Source(rec), error |-> error])]]
  /\ metrics' = m
  /\ cache' = ch
  /\ isLoading' = FALSE
  /\ UNCHANGED loadedDatasets

\* an await: the call is left suspended
Suspend(c, rec, m, ch, il) ==
  /\ calls' = [calls EXCEPT ![c] = [rec EXCEPT !.cacheChanged = @ \/ ch # cache]]
  /\ metrics' = m
  /\ cache' = ch
  /\ isLoading' = il
  /\ UNCHANGED loadedDatasets

\* mutant: the package is written to the cache whatever options.cache is
CacheWrite_always(ch, rec, dataPackage) ==
  CacheAfterSet(ch, rec.key, dataPackage, now)

\* mutant: the package is cached under the source instead of the cache key
CacheWrite_underSource(ch, rec, dataPackage) ==
  IF Options(rec).cache
  THEN CacheAfterSet(ch, dataPackage.metadata.source, dataPackage, now) ELSE ch

\* mutant: a package set under a cached key keeps the old insertion time
CacheWrite_keepsAge(ch, rec, dataPackage) ==
  IF Options(rec).cache
  THEN IF CacheHas(ch, rec.key)
       THEN [n \in 1..Len(ch) |->
              IF ch[n].key = rec.key THEN [ch[n] EXCEPT !.value = dataPackage]
              ELSE ch[n]]
       ELSE CacheAfterSet(ch, rec.key, dataPackage, now)
  ELSE ch

\* lines 175-178: the package is written to the cache unless cache is false
CacheWrite(ch, rec, dataPackage) ==
  IF Options(rec).cache THEN CacheAfterSet(ch, rec.key, dataPackage, now) ELSE ch

\* mutant: a load is counted only when no dataset of its source is registered
CountLoad_oncePerSource(m, dataPackage) ==
  IF \E k \in DOMAIN loadedDatasets :
       loadedDatasets[k].metadata.source = dataPackage.metadata.source
  THEN m
  ELSE [m EXCEPT !.totalLoaded = @ + 1,
                 !.loadTime = @ + dataPackage.metadata.loadTime]

\* lines 183-185: the metrics of a completed load
CountLoad(m, dataPackage) ==
  [m EXCEPT !.totalLoaded = @ + 1,
            !.loadTime = @ + dataPackage.metadata.loadTime]

\* lines 159-194: normalize, package, cache, register, count, emit, return
Finish(c, rec, m, ch, processedData) ==
  LET normalizedData == _normalizeData(processedData)
      dataPackage ==
        [data |-> normalizedData,
         metadata |-> [source |-> IF Source(rec).t = "string"
                                  THEN Join(Source(rec).v) ELSE "object",
                       format |-> IF Options(rec).format = "undefined"
                                  THEN "auto" ELSE Options(rec).format,
                       loadedAt |-> now,
                       size |-> KeyCount(normalizedData),
                       loadTime |-> now - rec.startTime],
         statistics |-> _calculateStatistics(normalizedData)]
  IN /\ cache' = CacheWrite(ch, rec, dataPackage)
     /\ loadedDatasets' = MapSet(loadedDatasets, rec.key, dataPackage)
     /\ metrics' = CountLoad(m, dataPackage)
     /\ calls' = [calls EXCEPT ![c] =
          [rec EXCEPT !.pc = "done", !.ret = <<dataPackage>>,
                      !.cacheChanged = @ \/ CacheWrite(ch, rec, dataPackage) # cache,
                      !.events = Append(@, [type |-> "loadComplete",
                                            source |-> Source(rec),
                                            data |-> dataPackage,
                                            fromCache |-> FALSE])]]
     /\ isLoading' = FALSE

\* lines 151-157, up to the await of _transformData
Transform(c, rec, m, ch, il, rawData) ==
  IF Options(rec).transform # "none"
  THEN LET r == _transformData(rawData, Options(rec).transform)
       IN Suspend(c, [rec EXCEPT !.pc = IF r.st = "yield" THEN "batch" ELSE "awaitT",
                                 !.transformStart = now,
                                 !.i = r.i,
                                 !.results = r.results,
                                 !.pending = r.st,
                                 !.transformCalls = r.invoked],
                  m, ch, il)
  ELSE Finish(c, rec, m, ch, rawData)

\* mutant: the validator is consulted and its verdict is not looked at
Validate_unchecked(c, rec, m, ch, il, rawData) ==
  IF validateData
  THEN Transform(c, [rec EXCEPT !.validations = @ + 1, !.raw = <<rawData>>],
                 m, ch, il, rawData)
  ELSE Transform(c, [rec EXCEPT !.raw = <<rawData>>], m, ch, il, rawData)

\* lines 143-149, then the transform
Validate(c, rec, m, ch, il, rawData) ==
  IF validateData
  THEN LET validationResult == validate(rawData)
           rec1 == [rec EXCEPT !.validations = @ + 1, !.raw = <<rawData>>]
       IN IF ~validationResult.valid
          THEN Fail(c, rec1, m, ch,
                    JsError("Error", "Data validation failed: "
                                     \o JoinWith(validationResult.errors, ", ")))
          ELSE Transform(c, rec1, m, ch, il, rawData)
  ELSE Transform(c, [rec EXCEPT !.raw = <<rawData>>], m, ch, il, rawData)

\* mutant: a cache hit also registers the package as an active dataset
CacheHit_registers(c, rec, ch, cachedData) ==
  /\ metrics' = [metrics EXCEPT !.cacheHits = @ + 1]
  /\ calls' = [calls EXCEPT ![c] =
       [rec EXCEPT !.pc = "done", !.ret = cachedData, !.fromCache = TRUE,
                   !.cacheChanged = @ \/ ch # cache,
                   !.events = Append(@, [type |-> "loadComplete",
                                         source |-> Source(rec),
                                         data |-> cachedData[1],
                                         fromCache |-> TRUE])]]
  /\ cache' = ch
  /\ isLoading' = FALSE
  /\ loadedDatasets' = MapSet(loadedDatasets, rec.key \o "#hit", cachedData[1])

\* lines 123-127: the cached package is returned as it is
CacheHit(c, rec, ch, cachedData) ==
  /\ metrics' = [metrics EXCEPT !.cacheHits = @ + 1]
  /\ calls' = [calls EXCEPT ![c] =
       [rec EXCEPT !.pc = "done", !.ret = cachedData, !.fromCache = TRUE,
                   !.cacheChanged = @ \/ ch # cache,
                   !.events = Append(@, [type |-> "loadComplete",
                                         source |-> Source(rec),
                                         data |-> cachedData[1],
                                         fromCache |-> TRUE])]]
  /\ cache' = ch
  /\ isLoading' = FALSE
  /\ UNCHANGED loadedDatasets

Suspended(rec) == rec.pc \in {"fetch", "awaitT", "batch"}

\* lines 109-141: loadData(source, options) is called with InputTable[n]
loadData(c, n) ==
  /\ calls[c].pc = "idle"
  /\ \A d \in Calls : d < c => calls[d].pc # "idle"
  /\ InputTable[n].api = "engine"
  /\ LET source == InputTable[n].source
         options == InputTable[n].options
         cacheKey == _generateCacheKey(source, options)
         rec == [IdleCall EXCEPT !.inp = n, !.key = cacheKey, !.startTime = now,
                   !.sharedWith = {d \in Calls : /\ Suspended(calls[d])
                                                 /\ calls[d].key = cacheKey},
                   !.events = <<[type |-> "loadStart", source |-> source]>>]
         cachedData == IF options.cache THEN CacheGet(cache, cacheKey, now) ELSE <<>>
         ch == IF options.cache THEN CacheAfterGet(cache, cacheKey, now) ELSE cache
         missed == IF options.cache
                   THEN [metrics EXCEPT !.cacheMisses = @ + 1] ELSE metrics
     IN IF cachedData # <<>>
        THEN CacheHit(c, rec, ch, cachedData)
        ELSE CASE source.t = "string" ->
                    \* _loadFromUrl, lines 235-242: arm the timer, await fetch
                    Suspend(c, [rec EXCEPT !.pc = "fetch", !.fetches = 1,
                                  !.timer = IF options.timeout # 0
                                            THEN options.timeout ELSE configTimeout],
                            missed, ch, TRUE)
               [] source.t \in {"array", "object"} ->
                    Validate(c, rec, missed, ch, TRUE, source)
               [] OTHER ->
                    Fail(c, rec, missed, ch,
                         JsError("Error", "Unsupported data source type"))
  /\ UNCHANGED <<now, validateData, clearedEvents>>
  /\ UNCHANGED <<libVars, uiVars>>

\* _loadFromUrl, lines 244-271: the parser applied to an ok response
EngineParser(options, response) ==
  IF options.format \in {"auto", "undefined"}
  THEN IF Includes(response.contentType, APPJSON) THEN "json"
       ELSE IF Includes(response.contentType, TEXTCSV) THEN "csv"
       ELSE "text"
  ELSE CASE options.format = "json" -> "json"
         [] options.format = "csv" -> "csv"
         [] options.format = "text" -> "text"
         [] OTHER -> "json"

\* mutant: only server errors are treated as failures
HttpFailure_serverOnly(response) == response.status >= 500

\* line 244 (DataLoader.fetch line 73): if (!response.ok)
HttpFailure(response) == ~response.ok

\* The fetch of call c is answered with ResponseTable[r] and the body is read:
\* _loadFromUrl lines 244-274, then loadData resumes at line 143.
Respond(c, r) ==
  /\ calls[c].pc = "fetch"
  /\ InputTable[calls[c].inp].api = "engine"
  /\ LET rec == [calls[c] EXCEPT !.timer = 0, !.status = ResponseTable[r].status]
         response == ResponseTable[r]
         parser == EngineParser(Options(rec), response)
         parsed == [rec EXCEPT !.parses = @ + 1]
     IN IF HttpFailure(response)
        THEN Fail(c, rec, metrics, cache,
                  JsError("Error", "HTTP " \o ToString(response.status) \o ": "
                                   \o response.statusText))
        ELSE CASE parser = "json" ->
                    IF response.json = <<>>
                    THEN Fail(c, parsed, metrics, cache,
                              JsError("SyntaxError", "Unexpected token"))
                    ELSE Validate(c, parsed, metrics, cache, isLoading, response.json[1])
               [] parser = "csv" ->
                    Validate(c, parsed, metrics, cache, isLoading,
                             [t |-> "array", v |-> _parseCSV(response.text)])
               [] parser = "text" ->
                    Validate(c, parsed, metrics, cache, isLoading,
                             [t |-> "string", v |-> response.text])
  /\ UNCHANGED <<now, validateData, clearedEvents>>
  /\ UNCHANGED <<libVars, uiVars>>

\* fetch rejects (no connection): the error propagates through _loadFromUrl
FetchError(c) ==
  /\ calls[c].pc = "fetch"
  /\ InputTable[calls[c].inp].api = "engine"
  /\ Fail(c, [calls[c] EXCEPT !.timer = 0], metrics, cache,
          JsError("TypeError", "Failed to fetch"))
  /\ UNCHANGED <<now, validateData, clearedEvents>>
  /\ UNCHANGED <<libVars, uiVars>>

\* mutant: the abort is reported as a failed fetch
Timeout_asFetchError(c) ==
  /\ calls[c].pc = "fetch"
  /\ InputTable[calls[c].inp].api = "engine"
  /\ calls[c].timer # 0
  /\ Fail(c, [calls[c] EXCEPT !.timer = 0, !.aborted = TRUE], metrics, cache,
          JsError("TypeError", "Failed to fetch"))
  /\ UNCHANGED <<now, validateData, clearedEvents>>
  /\ UNCHANGED <<libVars, uiVars>>

\* line 236: the timer fires before the fetch has settled, controller.abort()
\* rejects the fetch with the AbortError
Timeout(c) ==
  /\ calls[c].pc = "fetch"
  /\ InputTable[calls[c].inp].api = "engine"
  /\ calls[c].timer # 0
  /\ Fail(c, [calls[c] EXCEPT !.timer = 0, !.aborted = TRUE], metrics, cache,
          JsError("AbortError", "The operation was aborted"))
  /\ UNCHANGED <<now, validateData, clearedEvents>>
  /\ UNCHANGED <<libVars, uiVars>>

\* loadData resumes after `await this._transformData(...)`, lines 155-157
ResumeTransform(c) ==
  /\ calls[c].pc = "awaitT"
  /\ LET rec == calls[c]
     IN IF rec.pending = "throw"
        THEN Fail(c, rec, metrics, cache, JsError("Error", "no v"))
        ELSE Finish(c, rec,
                    [metrics EXCEPT !.transformTime = @ + (now - rec.transformStart)],
                    cache,
                    IF rec.raw[1].t = "array"
                    THEN [t |-> "array", v |-> rec.results] ELSE rec.results[1])
  /\ UNCHANGED <<now, validateData, clearedEvents>>
  /\ UNCHANGED <<libVars, uiVars>>

\* the setTimeout(resolve, 0) of the batch loop fires: the loop runs on until
\* it yields again, returns (loadData resumes at line 156) or throws
ResumeBatch(c) ==
  /\ calls[c].pc = "batch"
  /\ LET rec == calls[c]
         r == RunBatches(Options(rec).transform, rec.raw[1].v, rec.i, rec.results,
                         rec.transformCalls)
         rec1 == [rec EXCEPT !.i = r.i, !.results = r.results, !.pending = r.st,
                             !.transformCalls = r.invoked]
     IN CASE r.st = "yield" -> Suspend(c, rec1, metrics, cache, isLoading)
          [] r.st = "throw" -> Fail(c, rec1, metrics, cache, JsError("Error", "no v"))
          [] r.st = "done" ->
               Finish(c, rec1,
                      [metrics EXCEPT !.transformTime = @ + (now - rec.transformStart)],
                      cache, [t |-> "array", v |-> r.results])
  /\ UNCHANGED <<now, validateData, clearedEvents>>
  /\ UNCHANGED <<libVars, uiVars>>

(***************************************************************************)
(* DataLoader.load -> loadJSON / loadCSV / loadXML / loadText -> fetch     *)
(***************************************************************************)
\* DataLoader.load(url, format, options), lines 152-166: the loader chosen
DataLoader_format(source, options) ==
  LET detectedFormat == IF options.format = "undefined"
                        THEN DataLoader_detectFormat(source.v) ELSE options.format
  IN IF detectedFormat \in {"json", "csv", "xml"} THEN detectedFormat ELSE "text"

\* load(url, format, options) is called with InputTable[n]; DataLoader.fetch
\* arms its timer with this.config.timeout and awaits fetch (lines 59-69)
DataLoader_load(c, n) ==
  /\ calls[c].pc = "idle"
  /\ \A d \in Calls : d < c => calls[d].pc # "idle"
  /\ InputTable[n].api = "loader"
  /\ calls' = [calls EXCEPT ![c] =
       [IdleCall EXCEPT !.pc = "fetch", !.inp = n, !.startTime = now,
                        !.fetches = 1, !.timer = loaderTimeout]]
  /\ UNCHANGED <<now, validateData, cache, loadedDatasets, metrics, isLoading,
                 clearedEvents>>
  /\ UNCHANGED <<libVars, uiVars>>

\* DataLoader.fetch lines 71-77, then the body is read and parsed
DataLoader_respond(c, r) ==
  /\ calls[c].pc = "fetch"
  /\ InputTable[calls[c].inp].api = "loader"
  /\ LET rec == [calls[c] EXCEPT !.timer = 0, !.status = ResponseTable[r].status]
         response == ResponseTable[r]
         format == DataLoader_format(Source(rec), Options(rec))
         failed(e) == [rec EXCEPT !.pc = "failed", !.err = <<e>>]
         parsed(v) == [rec EXCEPT !.pc = "done", !.ret = <<v>>, !.parses = 1]
     IN calls' = [calls EXCEPT ![c] =
          IF HttpFailure(response)
          THEN failed(JsError("Error", "HTTP " \o ToString(response.status) \o ": "
                                       \o response.statusText))
          ELSE CASE format = "json" ->
                      IF response.json = <<>>
                      THEN [failed(JsError("SyntaxError", "Unexpected token"))
                              EXCEPT !.parses = 1]
                      ELSE parsed(response.json[1])
                 [] format = "csv" ->
                      parsed(DataLoader_parseCSV(response.text, ",", TRUE))
                 [] format = "xml" ->
                      IF response.xml
                      THEN parsed([t |-> "document", v |-> response.text])
                      ELSE [failed(JsError("Error", "XML parsing error: "))
                              EXCEPT !.parses = 1]
                 [] format = "text" ->
                      parsed([t |-> "string", v |-> response.text])]
  /\ UNCHANGED <<now, validateData, cache, loadedDatasets, metrics, isLoading,
                 clearedEvents>>
  /\ UNCHANGED <<libVars, uiVars>>

\* fetch rejects: rethrown by the catch of DataLoader.fetch (line 82)
DataLoader_fetchError(c) ==
  /\ calls[c].pc = "fetch"
  /\ InputTable[calls[c].inp].api = "loader"
  /\ calls' = [calls EXCEPT ![c] =
       [@ EXCEPT !.pc = "failed", !.err = <<JsError("TypeError", "Failed to fetch")>>]]
  /\ UNCHANGED <<now, validateData, cache, loadedDatasets, metrics, isLoading,
                 clearedEvents>>
  /\ UNCHANGED <<libVars, uiVars>>

\* the timer of DataLoader.fetch fires: abort, and the catch (lines 79-81)
\* turns the AbortError into a timeout Error
DataLoader_timeout(c) ==
  /\ calls[c].pc = "fetch"
  /\ InputTable[calls[c].inp].api = "loader"
  /\ calls[c].timer # 0
  /\ calls' = [calls EXCEPT ![c] =
       [@ EXCEPT !.pc = "failed", !.timer = 0, !.aborted = TRUE,
                 !.err = <<JsError("Error", "Request timeout after "
                                            \o ToString(loaderTimeout) \o "ms")>>]]
  /\ UNCHANGED <<now, validateData, cache, loadedDatasets, metrics, isLoading,
                 clearedEvents>>
  /\ UNCHANGED <<libVars, uiVars>>

\* DataEngine.getMetrics()
getMetrics ==
  [totalLoaded |-> metrics.totalLoaded,
   cacheHits |-> metrics.cacheHits,
   cacheMisses |-> metrics.cacheMisses,
   loadTime |-> metrics.loadTime,
   transformTime |-> metrics.transformTime,
   cacheSize |-> CacheSize(cache),
   activeDatasets |-> Cardinality(DOMAIN loadedDatasets),
   activeConnections |-> 0]

\* mutant: the time counters survive the reset
clear_keepsTimes ==
  /\ cache' = <<>>
  /\ loadedDatasets' = <<>>
  /\ metrics' = [ZeroMetrics EXCEPT !.loadTime = metrics.loadTime,
                                    !.transformTime = metrics.transformTime]
  /\ clearedEvents' = TRUE
  /\ calls' = [c \in Calls |->
                [calls[c] EXCEPT !.clearedInFlight = @ \/ Suspended(calls[c])]]
  /\ UNCHANGED <<now, validateData, isLoading>>
  /\ UNCHANGED <<libVars, uiVars>>

\* mutant: clear abandons the loads in flight
clear_cancels ==
  /\ cache' = <<>>
  /\ loadedDatasets' = <<>>
  /\ metrics' = ZeroMetrics
  /\ clearedEvents' = TRUE
  /\ calls' = [c \in Calls |->
                IF Suspended(calls[c])
                THEN [calls[c] EXCEPT !.pc = "failed", !.timer = 0,
                                      !.clearedInFlight = TRUE,
                                      !.err = <<JsError("AbortError", "cleared")>>]
                ELSE calls[c]]
  /\ UNCHANGED <<now, validateData, isLoading>>
  /\ UNCHANGED <<libVars, uiVars>>

\* DataEngine.clear()
clear ==
  /\ cache' = <<>>
  /\ loadedDatasets' = <<>>
  /\ metrics' = ZeroMetrics
  /\ clearedEvents' = TRUE
  /\ calls' = [c \in Calls |->
                [calls[c] EXCEPT !.clearedInFlight = @ \/ Suspended(calls[c])]]
  /\ UNCHANGED <<now, validateData, isLoading>>
  /\ UNCHANGED <<libVars, uiVars>>

\* time passes
Tick ==
  /\ now < MaxTime
  /\ now' = now + 1
  /\ UNCHANGED <<validateData, cache, loadedDatasets, metrics, isLoading,
                 clearedEvents, calls>>
  /\ UNCHANGED <<libVars, uiVars>>

Next ==
  \/ \E c \in Calls, n \in Inputs : loadData(c, n)
  \/ \E c \in Calls, r \in Responses : Respond(c, r)
  \/ \E c \in Calls : FetchError(c)
  \/ \E c \in Calls : Timeout(c)
  \/ \E c \in Calls : ResumeTransform(c)
  \/ \E c \in Calls : ResumeBatch(c)
  \/ \E c \in Calls, n \in Inputs : DataLoader_load(c, n)
  \/ \E c \in Calls, r \in Responses : DataLoader_respond(c, r)
  \/ \E c \in Calls : DataLoader_fetchError(c)
  \/ \E c \in Calls : DataLoader_timeout(c)
  \/ clear
  \/ Tick

Spec == Init /\ [][Next]_vars

\* a timer that has been armed and not cleared fires
FairSpec ==
  /\ Spec
  /\ \A c \in Calls : WF_vars(Timeout(c)) /\ WF_vars(DataLoader_timeout(c))
  \* a continuation queued by an await or by setTimeout(0) runs: weak
  \* fairness of ResumeTransform(c) and of ResumeBatch(c), written out with
  \* the guard of each action for its ENABLED
  /\ \A c \in Calls :
       /\ []<>(calls[c].pc # "awaitT") \/ []<><<ResumeTransform(c)>>_vars
       /\ []<>(calls[c].pc # "batch") \/ []<><<ResumeBatch(c)>>_vars

(***************************************************************************)
(* Properties                                                              *)
(***************************************************************************)
EngineCall(c) == calls[c].inp # 0 /\ InputTable[calls[c].inp].api = "engine"

LoaderCall(c) == calls[c].inp # 0 /\ InputTable[calls[c].inp].api = "loader"

EventsOfType(c, type) == SelectSeq(calls[c].events, LAMBDA e : e.type = type)

\* call c is made in this step
Starts(c) == calls[c].pc = "idle" /\ calls'[c].pc # "idle"

\* call c, an engine call, resolves in this step by loading (not from the cache)
Loads(c) ==
  /\ calls[c].pc # "done" /\ calls'[c].pc = "done"
  /\ EngineCall(c)' /\ ~calls'[c].fromCache

\* call c is served from the cache in this step
HitStep(c) == calls[c].pc = "idle" /\ calls'[c].fromCache

(* C1: with caching enabled, a load that completes leaves its package in
   the cache under its key, and a second call with the same source and
   options made while that entry is cached and unexpired is served from the
   cache: it returns the same data, adds exactly 1 to cacheHits, and does not
   invoke the transform function. *)
C1_SequentialLoadHits ==
  [][\A c \in Calls :
       /\ (Loads(c) /\ Options(calls'[c]).cache)
            => CacheGet(cache', calls'[c].key, now') = calls'[c].ret
       /\ \A d \in Calls \ {c} :
            ( /\ calls[d].pc = "done" /\ EngineCall(d) /\ Options(calls[d]).cache
              /\ CacheGet(cache, calls[d].key, now) = calls[d].ret
              /\ Starts(c) /\ calls'[c].inp = calls[d].inp )
            => /\ calls'[c].pc = "done"
               /\ calls'[c].fromCache
               /\ calls'[c].ret[1].data = calls[d].ret[1].data
               /\ metrics'.cacheHits = metrics.cacheHits + 1
               /\ calls'[c].transformCalls = 0
    ]_vars

\* a transforming load followed by the same call, served from the cache
C1_Witness ==
  \E c, d \in Calls :
    /\ c # d /\ EngineCall(c) /\ calls[c].inp = calls[d].inp
    /\ Options(calls[c]).transform # "none"
    /\ calls[d].pc = "done" /\ ~calls[d].fromCache /\ calls[d].transformCalls > 0
    /\ calls[c].pc = "done" /\ calls[c].fromCache /\ calls[c].transformCalls = 0
    /\ calls[c].ret = calls[d].ret
    /\ metrics.cacheHits = 1

(* C2: a call served from the cache performs no fetch, no body parse, no
   validation and no transform, leaves the cache, the active-dataset
   registry, totalLoaded, cacheMisses, loadTime and transformTime unchanged,
   and emits exactly one loadComplete notification, flagged fromCache, and
   no loadError. *)
C2_CacheHitFrame ==
  [][\A c \in Calls : HitStep(c) =>
       /\ calls'[c].fetches = 0 /\ calls'[c].parses = 0
       /\ calls'[c].validations = 0 /\ calls'[c].transformCalls = 0
       /\ cache' = cache
       /\ loadedDatasets' = loadedDatasets
       /\ metrics' = [metrics EXCEPT !.cacheHits = @ + 1]
       /\ Len(EventsOfType(c, "loadComplete")') = 1
       /\ EventsOfType(c, "loadComplete")'[1].fromCache
       /\ EventsOfType(c, "loadComplete")'[1].data = calls'[c].ret[1]
       /\ EventsOfType(c, "loadError")' = <<>>
    ]_vars

\* a hit in an engine that has loaded something and measured a load time
C2_Witness ==
  \E c \in Calls :
    /\ calls[c].pc = "done" /\ calls[c].fromCache
    /\ Len(cache) = 1 /\ metrics.totalLoaded = 1 /\ metrics.loadTime > 0

\* the notifications and the error of a failed engine call
FailureReported(c) ==
  /\ Len(EventsOfType(c, "loadError")) = 1
  /\ EventsOfType(c, "loadError")[1].source = Source(calls[c])
  /\ <<EventsOfType(c, "loadError")[1].error>> = calls[c].err
  /\ EventsOfType(c, "loadComplete") = <<>>
  /\ calls[c].ret = <<>>

\* a segment of call c runs in this step (clear() only marks the call)
Advances(c) ==
  [calls'[c] EXCEPT !.clearedInFlight = FALSE]
    # [calls[c] EXCEPT !.clearedInFlight = FALSE]

\* a segment of engine call c runs in this step and does not complete it
RunsUncompleted(c) ==
  /\ Advances(c) /\ EngineCall(c)' /\ calls'[c].pc # "done"

(* C3 as stated: every failing loadData call emits exactly one loadError
   carrying the source and the error, propagates that error, and leaves the
   cache, the registry and totalLoaded unchanged. *)
C3_FailureLeavesCacheUnchanged ==
  \A c \in Calls :
    (EngineCall(c) /\ calls[c].pc = "failed")
      => FailureReported(c) /\ ~calls[c].cacheChanged

(* C3, amended: every failing loadData call emits exactly one loadError
   carrying the source and the error and propagates that error; no segment
   of a call that does not complete writes the registry, totalLoaded or an
   entry of the cache: the only change such a call makes to the cache is the
   removal, by its initial lookup, of the expired entry of its own key. *)
C3_FailureWritesNothing ==
  /\ [](\A c \in Calls :
          (EngineCall(c) /\ calls[c].pc = "failed") => FailureReported(c))
  /\ [][\A c \in Calls : RunsUncompleted(c) =>
          /\ loadedDatasets' = loadedDatasets
          /\ metrics'.totalLoaded = metrics.totalLoaded
          /\ \/ cache' = cache
             \/ /\ Starts(c) /\ Options(calls'[c]).cache
                /\ CacheHas(cache, calls'[c].key)
                /\ Expired(CacheEntry(cache, calls'[c].key), now)
                /\ cache' = SelectSeq(cache, LAMBDA e : e.key # calls'[c].key)
      ]_vars

\* a failed call, its loadError emitted, whose lookup removed the expired
\* entry of its key
C3_Witness ==
  \E c \in Calls :
    /\ EngineCall(c) /\ calls[c].pc = "failed" /\ calls[c].cacheChanged
    /\ Len(EventsOfType(c, "loadError")) = 1

\* every entry of the cache after the step was in it before the step
NothingCached == \A i \in 1..Len(cache') : \E j \in 1..Len(cache) : cache'[i] = cache[j]

ValidationError(data) ==
  JsError("Error", "Data validation failed: " \o JoinWith(validate(data).errors, ", "))

(* C4: when validation is enabled and the validator reports the raw data
   invalid, loadData fails with the validation error listing the reasons,
   no transform has been invoked, no package is built or returned, and the
   failing step caches and registers nothing; when validation is disabled
   the validator is never consulted. *)
C4_InvalidDataRejected ==
  /\ [](\A c \in Calls :
          /\ (EngineCall(c) /\ validateData /\ calls[c].raw # <<>>
                /\ ~validate(calls[c].raw[1]).valid)
               => /\ calls[c].pc = "failed"
                  /\ calls[c].err = <<ValidationError(calls[c].raw[1])>>
                  /\ calls[c].validations = 1
                  /\ calls[c].transformCalls = 0
                  /\ calls[c].ret = <<>>
                  /\ EventsOfType(c, "loadComplete") = <<>>
          /\ ~validateData => calls[c].validations = 0)
  /\ [][\A c \in Calls :
          (calls'[c].validations > calls[c].validations /\ calls'[c].pc = "failed")
            => NothingCached /\ loadedDatasets' = loadedDatasets
      ]_vars

\* an invalid array given with a transform is rejected while the cache and
\* the registry hold another dataset
C4_Witness ==
  \E c \in Calls :
    /\ validateData /\ EngineCall(c) /\ calls[c].pc = "failed"
    /\ calls[c].validations = 1 /\ Options(calls[c]).transform # "none"
    /\ calls[c].err = <<JsError("Error", "Data validation failed: record 0 is empty")>>
    /\ Len(cache) = 1 /\ ~CacheHas(cache, calls[c].key)

(* C5: any two loadData calls made with the same source and the same
   options have the same cache key, whatever the state of the engine
   (clock, cache, metrics, earlier calls) when each is made. *)
C5_KeyDeterministic ==
  \A c, d \in Calls :
    (EngineCall(c) /\ EngineCall(d) /\ calls[c].inp = calls[d].inp)
      => calls[c].key = calls[d].key

\* the same call made at two times, the second after a load and a clear
C5_Witness ==
  \E c, d \in Calls :
    /\ EngineCall(c) /\ EngineCall(d) /\ calls[c].inp = calls[d].inp
    /\ calls[c].startTime < calls[d].startTime
    /\ clearedEvents /\ ~calls[d].fromCache
    /\ calls[c].key = calls[d].key /\ calls[c].key # ""

\* the error a call fails with when its timer fires
TimeoutErrorOf(c) ==
  IF EngineCall(c) THEN JsError("AbortError", "The operation was aborted")
  ELSE JsError("Error", "Request timeout after " \o ToString(loaderTimeout) \o "ms")

\* the delay the timer of a URL load is armed with
TimerOf(c) ==
  IF LoaderCall(c) THEN loaderTimeout
  ELSE IF Options(calls[c]).timeout # 0 THEN Options(calls[c]).timeout
  ELSE configTimeout

(* C6: while a URL load awaits its fetch its timer is armed with the
   timeout (loadData: options.timeout, else the configured default;
   DataLoader: its configured timeout); a load whose timer fires before a
   response has its request aborted and is failed with the timeout error,
   which no other failure produces; and a load awaiting its fetch does not
   stay pending forever. *)
C6_TimeoutFails ==
  /\ [](\A c \in Calls :
          /\ calls[c].pc = "fetch" => calls[c].timer = TimerOf(c)
          /\ calls[c].aborted
               => /\ calls[c].pc = "failed" /\ calls[c].status = 0
                  /\ calls[c].err = <<TimeoutErrorOf(c)>>
          /\ (calls[c].pc = "failed" /\ ~calls[c].aborted)
               => calls[c].err # <<TimeoutErrorOf(c)>>)
  /\ \A c \in Calls : (calls[c].pc = "fetch") ~> (calls[c].pc # "fetch")

\* an engine load and a loader load both failed by their timers
C6_Witness ==
  \E c, d \in Calls :
    /\ EngineCall(c) /\ calls[c].aborted /\ calls[c].pc = "failed"
    /\ calls[c].err[1].name = "AbortError"
    /\ LoaderCall(d) /\ calls[d].aborted /\ calls[d].pc = "failed"

(* C7: a URL load whose response has a non-success status fails with the
   HTTP error carrying that status; the body is never parsed, nothing is
   returned, and the step caches and registers nothing. *)
C7_HttpErrorFails ==
  /\ [](\A c \in Calls :
          (calls[c].status # 0 /\ calls[c].status \notin 200..299)
            => /\ calls[c].pc = "failed"
               /\ \E r \in Responses :
                    /\ ResponseTable[r].status = calls[c].status
                    /\ calls[c].err =
                         <<JsError("Error", "HTTP " \o ToString(calls[c].status)
                                            \o ": " \o ResponseTable[r].statusText)>>
               /\ calls[c].parses = 0
               /\ calls[c].ret = <<>>)
  /\ [][\A c \in Calls :
          (calls[c].status = 0 /\ calls'[c].status \notin 200..299 /\ calls'[c].status # 0)
            => NothingCached /\ loadedDatasets' = loadedDatasets
      ]_vars

\* a 404 for an engine load and a 500 for a loader load
C7_Witness ==
  \E c, d \in Calls :
    /\ EngineCall(c) /\ calls[c].status = 404 /\ calls[c].pc = "failed"
    /\ calls[c].err = <<JsError("Error", "HTTP 404: Not Found")>>
    /\ LoaderCall(d) /\ calls[d].status = 500 /\ calls[d].pc = "failed"

\* the entries of cache c stored under key
EntriesFor(c, key) == Len(SelectSeq(c, LAMBDA e : e.key = key))

\* call c is made in this step, with the source and options of a call that
\* is suspended in its fetch, and finds nothing cached
OverlapStart(c) ==
  /\ Starts(c) /\ EngineCall(c)' /\ ~calls'[c].fromCache
  /\ \E d \in Calls \ {c} : calls[d].pc = "fetch" /\ calls[d].inp = calls'[c].inp

\* URL load c was made while a call with its source and options was
\* suspended in its fetch, or such a call was made while c was
Overlapped(c) ==
  /\ EngineCall(c) /\ Source(calls[c]).t = "string"
  /\ \E d \in Calls \ {c} :
       /\ calls[d].inp = calls[c].inp
       /\ d \in calls[c].sharedWith \/ c \in calls[d].sharedWith

\* what C8 says of one step; when always is FALSE the cache miss and the
\* cache entry are required of calls with caching enabled only
NotCoalescedStep(always) ==
  \A c \in Calls :
    /\ OverlapStart(c)
         => /\ calls'[c].pc = "fetch" /\ calls'[c].fetches = 1
            /\ metrics'.cacheMisses =
                 metrics.cacheMisses
                   + (IF always \/ Options(calls'[c]).cache THEN 1 ELSE 0)
    /\ (Loads(c) /\ Overlapped(c))
         => /\ calls[c].pc = "fetch" /\ calls[c].fetches = 1
            /\ calls'[c].ret # <<>>
            /\ metrics'.totalLoaded = metrics.totalLoaded + 1
            /\ EntriesFor(cache', calls[c].key) =
                 (IF always \/ Options(calls[c]).cache
                  THEN 1 ELSE EntriesFor(cache, calls[c].key))
    /\ \A d \in Calls \ {c} : Advances(c) => calls'[d] = calls[d]

(* C8 as stated: a call made while a call with the same source and options
   is suspended in its fetch starts its own fetch and counts one cache
   miss; each of the two that loads adds 1 to totalLoaded and leaves one
   cache entry under the shared key; no step of one call advances the
   other. *)
C8_OverlapCountsMisses == [][NotCoalescedStep(TRUE)]_vars

(* C8, amended: as above, where the cache miss is counted and the cache
   entry is written only when the calls have caching enabled; with
   options.cache false no miss is counted and the load leaves the cache
   as it was. *)
C8_NotCoalesced ==
  /\ [][NotCoalescedStep(FALSE)]_vars
  /\ [][\A c \in Calls : (Loads(c) /\ ~Options(calls'[c]).cache) => cache' = cache]_vars

\* two overlapping loads of one URL, caching enabled, both resolved
C8_Witness ==
  \E c, d \in Calls :
    /\ c # d /\ EngineCall(c) /\ calls[c].inp = calls[d].inp
    /\ Source(calls[c]).t = "string" /\ Options(calls[c]).cache
    /\ c \in calls[d].sharedWith
    /\ calls[c].pc = "done" /\ calls[d].pc = "done"
    /\ ~calls[c].fromCache /\ ~calls[d].fromCache
    /\ calls[c].fetches = 1 /\ calls[d].fetches = 1
    /\ ~clearedEvents
    /\ metrics.cacheMisses = 2 /\ metrics.totalLoaded = 2
    /\ EntriesFor(cache, calls[c].key) = 1 /\ Len(cache) = 1

(* C9: in every state in which clear() runs, the state it returns in has
   getMetrics() reporting totalLoaded, cacheHits, cacheMisses, loadTime,
   transformTime, cacheSize and activeDatasets all 0. *)
C9_ClearZeroesMetrics ==
  [][clear => /\ getMetrics'.totalLoaded = 0
              /\ getMetrics'.cacheHits = 0
              /\ getMetrics'.cacheMisses = 0
              /\ getMetrics'.loadTime = 0
              /\ getMetrics'.transformTime = 0
              /\ getMetrics'.cacheSize = 0
              /\ getMetrics'.activeDatasets = 0
    ]_vars

\* the engine just cleared, after a transforming load and a cache hit, with
\* a load in flight
C9_Witness ==
  /\ clearedEvents
  /\ getMetrics = [totalLoaded |-> 0, cacheHits |-> 0, cacheMisses |-> 0,
                   loadTime |-> 0, transformTime |-> 0, cacheSize |-> 0,
                   activeDatasets |-> 0, activeConnections |-> 0]
  /\ \E c, d \in Calls :
       /\ calls[c].pc = "done" /\ EngineCall(c) /\ calls[c].transformCalls > 0
       /\ Suspended(calls[d])

\* what C10 says of one step; when always is FALSE the package is required
\* in the cache of calls with caching enabled only
SurvivesClearStep(always) ==
  /\ clear => \A c \in Calls :
                /\ calls'[c] = [calls[c] EXCEPT !.clearedInFlight = calls'[c].clearedInFlight]
                /\ Suspended(calls[c]) => Suspended(calls'[c]) /\ calls'[c].clearedInFlight
  /\ \A c \in Calls :
       (Loads(c) /\ calls[c].clearedInFlight)
         => /\ calls'[c].ret # <<>>
            /\ calls[c].key \in DOMAIN loadedDatasets'
            /\ <<loadedDatasets'[calls[c].key]>> = calls'[c].ret
            /\ metrics'.totalLoaded = metrics.totalLoaded + 1
            /\ (always \/ Options(calls[c]).cache)
                 => CacheGet(cache', calls[c].key, now') = calls'[c].ret

(* C10 as stated: clear() changes nothing of a call in flight, and a call
   suspended when clear() ran that then completes resolves with its
   package, which it writes to the cache and to the registry, adding 1 to
   totalLoaded. *)
C10_ResumedLoadCached == [][SurvivesClearStep(TRUE)]_vars

(* C10, amended: clear() changes nothing of a call in flight; a call
   suspended when clear() runs goes on (it does not stay suspended), and
   when it completes it resolves with its package, registers it, adds 1 to
   totalLoaded, and writes it to the cache unless options.cache is false. *)
C10_ClearDoesNotCancel ==
  /\ [][SurvivesClearStep(FALSE)]_vars
  /\ \A c \in Calls :
       (calls[c].clearedInFlight /\ Suspended(calls[c])) ~> ~Suspended(calls[c])

\* a load suspended when clear() ran (its cache miss was reset with the
\* counters) and completed after it, cached and registered in the cleared
\* engine
C10_Witness ==
  \E c \in Calls :
    /\ calls[c].clearedInFlight /\ EngineCall(c) /\ calls[c].pc = "done"
    /\ ~calls[c].fromCache /\ Options(calls[c]).cache
    /\ metrics.cacheMisses = 0 /\ metrics.totalLoaded = 1
    /\ CacheGet(cache, calls[c].key, now) = calls[c].ret
    /\ DOMAIN loadedDatasets = {calls[c].key}
    /\ \A d \in Calls \ {c} : calls[d].pc = "idle"

(***************************************************************************)
(* DataEngine._normalizeData on its own                                    *)
(***************************************************************************)
\* the records an array may hold: with or without an id (0, 1 or null),
\* with or without another field, the id before or after it
NormItems ==
  LET ids == {"0", "1", "null"}
  IN {<<>>, << <<"v", "1">> >>}
       \cup UNION { { << <<"id", d>> >>,
                      << <<"id", d>>, <<"v", "1">> >>,
                      << <<"v", "1">>, <<"id", d>> >> } : d \in ids }

NormArrays ==
  {[t |-> "array", v |-> a] : a \in UNION {[1..k -> NormItems] : k \in 0..MaxItems}}

NormObject == [t |-> "object", v |-> << <<"v", "1">> >>]

NormInit ==
  /\ EngineInit /\ validateData = TRUE
  /\ batchRun = NoBatchRun /\ qt = NoQuadTree /\ UiRest
  /\ \/ \E d \in NormArrays : norm = [data |-> <<d>>, result |-> <<>>]
     \/ norm = [data |-> <<NormObject>>, result |-> <<>>]

\* _normalizeData(data) is called and returns
normalizeData ==
  /\ norm.data # <<>> /\ norm.result = <<>>
  /\ norm' = [norm EXCEPT !.result = <<_normalizeData(norm.data[1])>>]
  /\ UNCHANGED <<engineVars, batchRun, qt, uiVars>>

NormNext == normalizeData

NormSpec == NormInit /\ [][NormNext]_vars

\* the keys of an object
Keys(o) == {o[i][1] : i \in 1..Len(o)}

\* _normalizeData has returned an array
Normalized == norm.result # <<>> /\ norm.result[1].t = "array"

(* C11: _normalizeData returns an array of the same length in which every
   element has the id of the input element when that element has an id
   property and its index otherwise, and has every other property of the
   input element with its value, and no property besides. *)
C11_NormalizeAssignsIds ==
  Normalized =>
    LET in == norm.data[1].v
        out == norm.result[1].v
    IN /\ Len(out) = Len(in)
       /\ \A n \in 1..Len(in) :
            /\ GetProp(out[n], "id") =
                 (IF HasKey(in[n], "id") THEN GetProp(in[n], "id") ELSE ToString(n - 1))
            /\ Keys(out[n]) = Keys(in[n]) \cup {"id"}
            /\ \A k \in Keys(in[n]) : GetProp(out[n], k) = GetProp(in[n], k)

\* an array normalized that holds a record with the explicit id 0 away from
\* index 0, a record without id, and other fields
C11_Witness ==
  /\ Normalized
  /\ \E n, m \in 1..Len(norm.data[1].v) :
       /\ n > 1 /\ GetProp(norm.data[1].v[n], "id") = "0"
       /\ HasKey(norm.data[1].v[n], "v")
       /\ ~HasKey(norm.data[1].v[m], "id")
       /\ GetProp(norm.result[1].v[n], "id") = "0"
       /\ GetProp(norm.result[1].v[m], "id") = ToString(m - 1)

\* no two elements of array a have an id property with the same value
ExplicitIdsDistinct(a) ==
  \A n, m \in 1..Len(a) :
    (n # m /\ HasKey(a[n], "id") /\ HasKey(a[m], "id"))
      => GetProp(a[n], "id") # GetProp(a[m], "id")

(* C12: in the array returned by _normalizeData (the data of the package
   loadData returns for an array source) no two elements have the same id,
   for any mix of elements with explicit ids, distinct among themselves,
   and elements that receive their index. *)
C12_IdsUnique ==
  (Normalized /\ ExplicitIdsDistinct(norm.data[1].v))
    => \A n, m \in 1..Len(norm.result[1].v) :
         n # m => GetProp(norm.result[1].v[n], "id") # GetProp(norm.result[1].v[m], "id")

(***************************************************************************)
(* DataEngine._transformData on its own, one batch at a time               *)
(***************************************************************************)
\* mutant: the batch takes the item at index end too
Slice_inclusive(a, start, end) ==
  SubSeq(a, start + 1, IF end + 1 < Len(a) THEN end + 1 ELSE Len(a))

\* Array.prototype.slice(start, end), for 0 <= start <= end
Slice(a, start, end) ==
  SubSeq(a, start + 1, IF end < Len(a) THEN end ELSE Len(a))

\* the arrays given: every item has a field v
BatchArrays ==
  UNION {[1..k -> {<< <<"v", "1">> >>, << <<"v", "2">> >>}] : k \in 0..MaxLen}

\* the locals of a call: data, this.config.batchSize, i, results; invoked
\* lists the 0-based indices of the items the transformer was called on, in
\* call order; sinceYield counts the batches processed since the call or the
\* last yield; ret holds the return value once returned
BatchRunOf(data, size) ==
  [pc |-> "call", data |-> data, batchSize |-> size, transformer |-> "tagA",
   i |-> 0, results |-> <<>>, invoked |-> <<>>, sinceYield |-> 0, yields |-> 0,
   ret |-> <<>>]

BatchInit ==
  /\ EngineInit /\ validateData = TRUE
  /\ norm = NoNorm /\ qt = NoQuadTree /\ UiRest
  /\ \/ \E a \in BatchArrays, size \in 1..MaxBatch :
          batchRun = BatchRunOf([t |-> "array", v |-> a], size)
     \/ \E size \in 1..MaxBatch :
          batchRun = BatchRunOf([t |-> "object", v |-> << <<"v", "1">> >>], size)

\* lines 280-284 and 296-301: the call; a short array or a non-array value
\* is transformed at once
transformCall ==
  /\ batchRun.pc = "call"
  /\ LET r == batchRun
         n == IF r.data.t = "array" THEN Len(r.data.v) ELSE 0
     IN batchRun' =
          IF r.data.t = "array"
          THEN IF n > r.batchSize
               THEN [r EXCEPT !.pc = "loop"]
               ELSE [r EXCEPT !.pc = "returned",
                       !.invoked = [k \in 1..n |-> k - 1],
                       !.ret = <<[t |-> "array",
                                  v |-> [k \in 1..n |->
                                           TransformItem(r.transformer, r.data.v[k])]]>>]
          ELSE [r EXCEPT !.pc = "returned",
                  !.invoked = <<0>>,
                  !.ret = <<[t |-> "object",
                             v |-> TransformItem(r.transformer, r.data.v)]>>]
  /\ UNCHANGED <<engineVars, norm, qt, uiVars>>

\* lines 285-293: one iteration of the loop: slice, map, push, then the
\* await when i % (batchSize * 10) === 0, else i += batchSize
transformBatch ==
  /\ batchRun.pc = "loop" /\ batchRun.i < Len(batchRun.data.v)
  /\ LET r == batchRun
         batch == Slice(r.data.v, r.i, r.i + r.batchSize)
         transformedBatch == [k \in 1..Len(batch) |-> TransformItem(r.transformer, batch[k])]
         r1 == [r EXCEPT !.results = @ \o transformedBatch,
                         !.invoked = @ \o [k \in 1..Len(batch) |-> r.i + k - 1],
                         !.sinceYield = @ + 1]
     IN batchRun' =
          IF r.i % (r.batchSize * yieldEvery) = 0
          THEN [r1 EXCEPT !.pc = "yield"]
          ELSE [r1 EXCEPT !.i = @ + r.batchSize]
  /\ UNCHANGED <<engineVars, norm, qt, uiVars>>

\* line 292: the setTimeout(resolve, 0) fires and the loop goes on
transformResume ==
  /\ batchRun.pc = "yield"
  /\ batchRun' = [batchRun EXCEPT !.pc = "loop", !.i = @ + batchRun.batchSize,
                                  !.sinceYield = 0, !.yields = @ + 1]
  /\ UNCHANGED <<engineVars, norm, qt, uiVars>>

\* line 285 (the loop condition fails) and line 295: return results
transformReturn ==
  /\ batchRun.pc = "loop" /\ batchRun.i >= Len(batchRun.data.v)
  /\ batchRun' = [batchRun EXCEPT !.pc = "returned",
                                  !.ret = <<[t |-> "array", v |-> batchRun.results]>>]
  /\ UNCHANGED <<engineVars, norm, qt, uiVars>>

BatchNext == transformCall \/ transformBatch \/ transformResume \/ transformReturn

BatchSpec == BatchInit /\ [][BatchNext]_vars

\* the function runs on, and the timer it awaits fires
BatchFairSpec ==
  /\ BatchSpec
  /\ WF_vars(transformCall) /\ WF_vars(transformBatch)
  /\ WF_vars(transformResume) /\ WF_vars(transformReturn)

(* C13: while _transformData processes an array longer than batchSize, no
   more than one batch is processed without a yield: control is yielded
   between every two consecutive batches. *)
C13_YieldBetweenBatches == batchRun.pc # "none" => batchRun.sinceYield <= 1

(* C14: _transformData terminates, and what it returns for an array is an
   array of the same length whose i-th element is the transformer applied
   to the i-th item, the transformer having been called once on every item,
   in input order, whether the array was processed in batches or not. *)
C14_TransformMapsEveryRecord ==
  /\ [](batchRun.pc = "returned" =>
          IF batchRun.data.t = "array"
          THEN LET in == batchRun.data.v
                   out == batchRun.ret[1].v
               IN /\ batchRun.ret[1].t = "array"
                  /\ Len(out) = Len(in)
                  /\ \A k \in 1..Len(in) :
                       out[k] = TransformItem(batchRun.transformer, in[k])
                  /\ batchRun.invoked = [k \in 1..Len(in) |-> k - 1]
          ELSE batchRun.ret = <<[t |-> "object",
                                 v |-> TransformItem(batchRun.transformer,
                                                     batchRun.data.v)]>>)
  /\ (batchRun.pc = "call") ~> (batchRun.pc = "returned")

\* an array returned after a yield and three batches or more, the last one
\* not whole (the length is not a multiple of batchSize)
C14_Witness ==
  /\ batchRun.pc = "returned" /\ batchRun.data.t = "array"
  /\ Len(batchRun.data.v) > 2 * batchRun.batchSize
  /\ Len(batchRun.data.v) % batchRun.batchSize # 0
  /\ batchRun.yields = 1
  /\ Len(batchRun.ret[1].v) = Len(batchRun.data.v)

\* engine call c, made with options.cache false, is entered or resumed
RunsUncached(c) ==
  Advances(c) /\ EngineCall(c)' /\ ~Options(calls'[c]).cache

(* C15: no step of a loadData call made with options.cache false changes
   the cache, cacheHits or cacheMisses, and such a call is never served
   from the cache, whatever the cache holds under its key (an unexpired
   entry is not returned, an expired one is not removed); a call with
   caching enabled that is not served from the cache and loads leaves its
   package in the cache under its key in the step in which it returns. *)
C15_CacheOptionRespected ==
  [][\A c \in Calls :
       /\ RunsUncached(c)
            => /\ cache' = cache
               /\ metrics'.cacheHits = metrics.cacheHits
               /\ metrics'.cacheMisses = metrics.cacheMisses
               /\ ~calls'[c].fromCache
               /\ ~calls'[c].cacheChanged
       /\ (Loads(c) /\ Options(calls'[c]).cache)
            => /\ CacheHas(cache', calls'[c].key)
               /\ <<CacheEntry(cache', calls'[c].key).value>> = calls'[c].ret
               /\ CacheEntry(cache', calls'[c].key).insertedAt = now'
    ]_vars

\* a load with options.cache false that completed while the cache held an
\* unexpired package under its key, written by an earlier load of the same
\* source with caching enabled; the cache is as that load left it
C15_Witness ==
  \E c, d \in Calls :
    /\ d < c /\ EngineCall(c) /\ EngineCall(d)
    /\ calls[c].pc = "done" /\ calls[d].pc = "done"
    /\ ~Options(calls[c]).cache /\ Options(calls[d]).cache
    /\ calls[c].key = calls[d].key
    /\ ~calls[c].fromCache /\ ~calls[d].fromCache
    /\ calls[c].startTime > calls[d].startTime
    /\ CacheGet(cache, calls[c].key, now) = calls[d].ret
    /\ calls[c].ret # calls[d].ret
    /\ metrics.cacheHits = 0 /\ metrics.cacheMisses = 1 /\ metrics.totalLoaded = 2

-----------------------------------------------------------------------------
(* QuadTree (README, Spatial Indexing).  The tree is an arena: a sequence of
   nodes, a node's children being the handles of its northeast, northwest,
   southeast and southwest nodes.  insert and query are the README's;
   contains, intersects and subdivide are called there and written nowhere:
   they follow the specification (half-open boxes, four equal quadrants,
   redistribution, no subdivision at maxDepth). *)

MaxPoints == 2
MaxDepth == 2
MaxInserts == 4

\* side of the root's bounds: every quadrant down to MaxDepth has integer sides
RootSize == 2 ^ MaxDepth

RootBounds == [x |-> 0, y |-> 0, width |-> RootSize, height |-> RootSize]

\* new QuadTree(bounds, maxPoints, maxDepth); depth is the node's depth
QuadTree(bounds, maxPoints, maxDepth) ==
  [bounds |-> bounds, maxPoints |-> maxPoints, maxDepth |-> maxDepth,
   points |-> <<>>, divided |-> FALSE, children |-> <<>>, depth |-> 0]

\* a box contains a point: inclusive lower bound, exclusive upper bound
contains(bounds, point) ==
  /\ bounds.x <= point.x /\ point.x < bounds.x + bounds.width
  /\ bounds.y <= point.y /\ point.y < bounds.y + bounds.height

\* two half-open boxes have a point in common
intersects(bounds, range) ==
  /\ bounds.x < range.x + range.width /\ range.x < bounds.x + bounds.width
  /\ bounds.y < range.y + range.height /\ range.y < bounds.y + bounds.height

\* the four equal quadrants of a box: northeast, northwest, southeast, southwest
Quadrants(b) ==
  LET w == b.width \div 2
      h == b.height \div 2
  IN  << [x |-> b.x + w, y |-> b.y + h, width |-> w, height |-> h],
         [x |-> b.x,     y |-> b.y + h, width |-> w, height |-> h],
         [x |-> b.x + w, y |-> b.y,     width |-> w, height |-> h],
         [x |-> b.x,     y |-> b.y,     width |-> w, height |-> h] >>

RECURSIVE insert(_, _, _)
RECURSIVE InsertChildren(_, _, _, _)
RECURSIVE Redistribute(_, _, _, _)
RECURSIVE query(_, _, _)

\* the node with its four children made, its points taken out
Divided(nodes, h) ==
  LET n == nodes[h]
      k == Len(nodes)
      q == Quadrants(n.bounds)
      child(i) == [QuadTree(q[i], n.maxPoints, n.maxDepth) EXCEPT !.depth = n.depth + 1]
  IN  [nodes EXCEPT ![h].divided = TRUE,
                    ![h].children = <<k + 1, k + 2, k + 3, k + 4>>,
                    ![h].points = <<>>]
        \o <<child(1), child(2), child(3), child(4)>>

\* mutant: the node keeps its points when they are redistributed
subdivide_keepsPoints(nodes, h) ==
  LET n == nodes[h]
      made == Redistribute(Divided(nodes, h), h, n.points, 1)
  IN  IF n.depth < n.maxDepth THEN [made EXCEPT ![h].points = n.points] ELSE nodes

\* mutant: the points are dropped instead of redistributed
subdivide_dropsPoints(nodes, h) ==
  IF nodes[h].depth < nodes[h].maxDepth THEN Divided(nodes, h) ELSE nodes

\* this.subdivide(): below maxDepth the node gets four children and its
\* points go to them; at maxDepth nothing happens
subdivide(nodes, h) ==
  LET n == nodes[h]
  IN  IF n.depth < n.maxDepth
      THEN Redistribute(Divided(nodes, h), h, n.points, 1)
      ELSE nodes

\* mutant: a node takes one point more than maxPoints
insert_offByOne(nodes, h, point) ==
  LET n == nodes[h]
      s == IF n.divided THEN nodes ELSE subdivide(nodes, h)
  IN  IF ~contains(n.bounds, point)
      THEN [nodes |-> nodes, ret |-> "false"]
      ELSE IF Len(n.points) <= n.maxPoints /\ ~n.divided
      THEN [nodes |-> [nodes EXCEPT ![h].points = Append(@, point)], ret |-> "true"]
      ELSE IF s[h].children = <<>>
      THEN [nodes |-> s, ret |-> "TypeError"]
      ELSE InsertChildren(s, s[h].children, 1, point)

\* mutant: a full node subdivides before it looks at the point
insert_subdividesFirst(nodes, h, point) ==
  LET n == nodes[h]
      s == IF n.divided \/ Len(n.points) < n.maxPoints
           THEN nodes ELSE subdivide(nodes, h)
  IN  IF ~contains(n.bounds, point)
      THEN [nodes |-> s, ret |-> "false"]
      ELSE IF Len(n.points) < n.maxPoints /\ ~n.divided
      THEN [nodes |-> [nodes EXCEPT ![h].points = Append(@, point)], ret |-> "true"]
      ELSE IF s[h].children = <<>>
      THEN [nodes |-> s, ret |-> "TypeError"]
      ELSE InsertChildren(s, s[h].children, 1, point)

\* nodes[h].insert(point): the nodes afterwards and what the call returned,
\* "TypeError" when this.northeast is undefined and .insert is read from it
insert(nodes, h, point) ==
  LET n == nodes[h]
      s == IF n.divided THEN nodes ELSE subdivide(nodes, h)
  IN  IF ~contains(n.bounds, point)
      THEN [nodes |-> nodes, ret |-> "false"]
      ELSE IF Len(n.points) < n.maxPoints /\ ~n.divided
      THEN [nodes |-> [nodes EXCEPT ![h].points = Append(@, point)], ret |-> "true"]
      ELSE IF s[h].children = <<>>
      THEN [nodes |-> s, ret |-> "TypeError"]
      ELSE InsertChildren(s, s[h].children, 1, point)

\* northeast.insert(point) || northwest.insert(point) || ... from child k on
InsertChildren(nodes, children, k, point) ==
  IF k > Len(children)
  THEN [nodes |-> nodes, ret |-> "false"]
  ELSE LET r == insert(nodes, children[k], point)
       IN  IF r.ret = "false"
           THEN InsertChildren(r.nodes, children, k + 1, point)
           ELSE r

\* the points pts[i..] of node h inserted into its children
Redistribute(nodes, h, pts, i) ==
  IF i > Len(pts)
  THEN nodes
  ELSE Redistribute(InsertChildren(nodes, nodes[h].children, 1, pts[i]).nodes,
                    h, pts, i + 1)

\* the points of points that range contains, in order
Filter(points, range) == SelectSeq(points, LAMBDA pt : contains(range, pt))

\* mutant: the southwest child is not queried
query_skipsSouthwest(nodes, h, range) ==
  LET n == nodes[h]
      c == n.children
  IN  IF ~intersects(n.bounds, range)
      THEN <<>>
      ELSE Filter(n.points, range)
             \o (IF n.divided
                 THEN query(nodes, c[1], range) \o query(nodes, c[2], range)
                        \o query(nodes, c[3], range)
                 ELSE <<>>)

\* nodes[h].query(range): the array found
query(nodes, h, range) ==
  LET n == nodes[h]
      c == n.children
  IN  IF ~intersects(n.bounds, range)
      THEN <<>>
      ELSE Filter(n.points, range)
             \o (IF n.divided
                 THEN query(nodes, c[1], range) \o query(nodes, c[2], range)
                        \o query(nodes, c[3], range) \o query(nodes, c[4], range)
                 ELSE <<>>)

\* the points inserted: corners, quadrant boundaries, the centre, and two
\* points on the root's upper boundary, which the root does not contain
QuadPoints ==
  LET m == RootSize \div 2
  IN  { [x |-> 0, y |-> 0], [x |-> m, y |-> m], [x |-> m, y |-> 0],
        [x |-> m - 1, y |-> m], [x |-> RootSize - 1, y |-> RootSize - 1],
        [x |-> RootSize - 1, y |-> m], [x |-> RootSize, y |-> m],
        [x |-> 0, y |-> RootSize] }

\* the ranges queried: quadrants, cells, the root's bounds and a box across it
QuadRanges ==
  LET m == RootSize \div 2
  IN  { RootBounds } \cup
      { [x |-> a, y |-> b, width |-> w, height |-> w] :
          a \in {0, m}, b \in {0, m}, w \in {1, m} } \cup
      { [x |-> m - 1, y |-> m - 1, width |-> m + 1, height |-> 2] }

\* a tree just constructed: no insert made, no query made
QuadInit ==
  /\ EngineInit /\ validateData = TRUE
  /\ norm = NoNorm /\ batchRun = NoBatchRun /\ UiRest
  /\ \E mp \in 1..MaxPoints, md \in 0..MaxDepth :
       qt = [nodes |-> <<QuadTree(RootBounds, mp, md)>>,
             inserted |-> <<>>, lastQuery |-> <<>>]

\* tree.insert(point) is called on the root; inserted keeps each call's
\* point and what it returned
QuadTree_insert ==
  /\ qt.nodes # <<>> /\ Len(qt.inserted) < MaxInserts
  /\ \E point \in QuadPoints :
       LET r == insert(qt.nodes, 1, point)
       IN  qt' = [nodes |-> r.nodes,
                  inserted |-> Append(qt.inserted, [point |-> point, ret |-> r.ret]),
                  lastQuery |-> <<>>]
  /\ UNCHANGED <<engineVars, norm, batchRun, uiVars>>

\* tree.query(range) is called on the root; lastQuery keeps the range and
\* the array returned until the next insert
QuadTree_query ==
  /\ qt.nodes # <<>>
  /\ \E range \in QuadRanges :
       qt' = [qt EXCEPT !.lastQuery =
                <<[range |-> range, found |-> query(qt.nodes, 1, range)]>>]
  /\ UNCHANGED <<engineVars, norm, batchRun, uiVars>>

QuadNext == QuadTree_insert \/ QuadTree_query

QuadSpec == QuadInit /\ [][QuadNext]_vars

\* how many times point occurs in the sequence points
Occurrences(points, point) ==
  Cardinality({i \in 1..Len(points) : points[i] = point})

\* the points whose insert returned true, in the order inserted
Inserted ==
  LET ok == SelectSeq(qt.inserted, LAMBDA e : e.ret = "true")
  IN  [i \in 1..Len(ok) |-> ok[i].point]

(* C16: a query returns exactly the successfully inserted points that its
   range contains, each as many times as it was inserted: every inserted
   point inside the range is found, no point outside it is. *)
C16_QueryIsBruteForce ==
  qt.nodes # <<>> /\ qt.lastQuery # <<>> =>
    LET q == qt.lastQuery[1]
    IN  /\ \A point \in QuadPoints :
             Occurrences(q.found, point)
               = Occurrences(Filter(Inserted, q.range), point)
        /\ \A i \in 1..Len(q.found) : q.found[i] \in QuadPoints

\* a query of a tree that has subdivided, its range across several
\* quadrants, finding some inserted points and leaving others out
C16_Witness ==
  /\ qt.nodes # <<>> /\ qt.lastQuery # <<>>
  /\ Len(qt.nodes) > 5
  /\ qt.lastQuery[1].range.width > RootSize \div 2
  /\ qt.lastQuery[1].range # RootBounds
  /\ Len(qt.lastQuery[1].found) >= 2
  /\ Len(qt.lastQuery[1].found) < Len(Inserted)

\* the handles of the tree's nodes
Handles == 1..Len(qt.nodes)

(* C17: no node at a depth less than maxDepth holds more than maxPoints
   points directly. *)
C17_CapacityBelowMaxDepth ==
  \A h \in Handles :
    qt.nodes[h].depth < qt.nodes[h].maxDepth
      => Len(qt.nodes[h].points) <= qt.nodes[h].maxPoints

\* more points were inserted than one node takes, and a child below maxDepth
\* is full
C17_Witness ==
  /\ qt.nodes # <<>>
  /\ Len(Inserted) > qt.nodes[1].maxPoints
  /\ \E h \in Handles :
       /\ h > 1 /\ qt.nodes[h].depth < qt.nodes[h].maxDepth
       /\ Len(qt.nodes[h].points) = qt.nodes[h].maxPoints
       /\ qt.nodes[h].maxPoints = MaxPoints

(* C18: no node lies deeper than maxDepth, and every insert of a point
   inside the root's bounds returns true: a full node at maxDepth takes the
   point without subdividing. *)
C18_FullNodeAtMaxDepthAccepts ==
  /\ \A h \in Handles : qt.nodes[h].depth <= qt.nodes[h].maxDepth
  /\ \A i \in 1..Len(qt.inserted) :
       contains(RootBounds, qt.inserted[i].point) => qt.inserted[i].ret = "true"

RECURSIVE Stored(_, _)
\* the points held by the nodes k.. of the arena, one after the other
Stored(nodes, k) ==
  IF k > Len(nodes) THEN <<>> ELSE nodes[k].points \o Stored(nodes, k + 1)

(* C19: every successfully inserted point is held by exactly one node, as
   many times as it was inserted, and a query returns no point more often
   than it was inserted. *)
C19_StoredExactlyOnce ==
  \A point \in QuadPoints :
    /\ Occurrences(Stored(qt.nodes, 1), point) = Occurrences(Inserted, point)
    /\ qt.nodes # <<>> /\ qt.lastQuery # <<>>
         => Occurrences(qt.lastQuery[1].found, point) <= Occurrences(Inserted, point)

\* the centre of the root, on the boundary shared by all four quadrants,
\* inserted once into a tree that has subdivided, held by one child and
\* returned once by a query of the whole tree
C19_Witness ==
  LET centre == [x |-> RootSize \div 2, y |-> RootSize \div 2]
  IN  /\ qt.nodes # <<>> /\ qt.lastQuery # <<>>
      /\ qt.nodes[1].divided
      /\ Occurrences(Inserted, centre) = 1
      /\ \E h \in Handles : h > 1 /\ Occurrences(qt.nodes[h].points, centre) = 1
      /\ qt.lastQuery[1].range = RootBounds
      /\ Occurrences(qt.lastQuery[1].found, centre) = 1

RECURSIVE Leaf(_, _, _)
\* the node of the subtree at h that an insert of point comes down to
Leaf(nodes, h, point) ==
  LET c == nodes[h].children
      into == {k \in 1..Len(c) : contains(nodes[c[k]].bounds, point)}
  IN  IF ~nodes[h].divided \/ into = {}
      THEN h
      ELSE Leaf(nodes, c[CHOOSE k \in into : \A j \in into : k <= j], point)

RECURSIVE Under(_, _)
\* the points held by the subtree at h
Under(nodes, h) ==
  LET c == nodes[h].children
  IN  nodes[h].points
        \o (IF nodes[h].divided
            THEN Under(nodes, c[1]) \o Under(nodes, c[2])
                   \o Under(nodes, c[3]) \o Under(nodes, c[4])
            ELSE <<>>)

\* an insert step whose point comes down to a full undivided node (below
\* maxDepth, when belowCap) leaves that node with four new children on its
\* four quadrants, one level down, and its points under them; no step takes
\* a divided node back or changes its children
SubdividesStep(belowCap) ==
  qt.nodes # <<>> =>
    /\ \A h \in Handles :
         qt.nodes[h].divided
           => /\ h <= Len(qt'.nodes) /\ qt'.nodes[h].divided
              /\ qt'.nodes[h].children = qt.nodes[h].children
              /\ qt'.nodes[h].bounds = qt.nodes[h].bounds
    /\ Len(qt'.inserted) = Len(qt.inserted) + 1 =>
         LET point == qt'.inserted[Len(qt'.inserted)].point
             l == Leaf(qt.nodes, 1, point)
             old == qt.nodes[l]
             new == qt'.nodes[l]
         IN  ( /\ contains(RootBounds, point)
               /\ ~old.divided /\ Len(old.points) = old.maxPoints
               /\ belowCap => old.depth < old.maxDepth )
             => /\ new.divided /\ new.points = <<>>
                /\ Len(new.children) = 4
                /\ \A i \in 1..4 :
                     /\ new.children[i] \in (Len(qt.nodes) + 1)..Len(qt'.nodes)
                     /\ \A j \in 1..4 : new.children[i] = new.children[j] => i = j
                     /\ qt'.nodes[new.children[i]].bounds = Quadrants(old.bounds)[i]
                     /\ qt'.nodes[new.children[i]].depth = old.depth + 1
                /\ \A pt \in QuadPoints :
                     Occurrences(Under(qt'.nodes, l), pt) >= Occurrences(old.points, pt)

\* with maxDepth at least 1, once more than maxPoints inserts of points
\* inside the root's bounds were made the root has four children
RootSubdivided ==
  LET inside == SelectSeq(qt.inserted, LAMBDA e : contains(RootBounds, e.point))
  IN  qt.nodes # <<>> /\ qt.nodes[1].maxDepth >= 1
        /\ Len(inside) > qt.nodes[1].maxPoints
        => qt.nodes[1].divided /\ Len(qt.nodes[1].children) = 4

(* C20 as stated: every full node subdivides into four children on the next
   insert that comes down to it, its points going to the children; the root
   has four children after insert maxPoints + 1 when maxDepth >= 1; a
   divided node stays divided. *)
C20_FullNodeSubdivides ==
  [][SubdividesStep(FALSE)]_vars /\ []RootSubdivided

(* C20: a full node at a depth less than maxDepth subdivides into four
   children on the next insert that comes down to it, its points going to
   the children; the root has four children after insert maxPoints + 1 when
   maxDepth >= 1; a divided node stays divided. *)
C20_FullNodeBelowCapSubdivides ==
  [][SubdividesStep(TRUE)]_vars /\ []RootSubdivided

\* maxPoints + 1 points were inserted, the last into a full root: the root
\* has four children, holds no point, and two children hold the points
C20_Witness ==
  /\ qt.nodes # <<>>
  /\ qt.nodes[1].maxPoints = MaxPoints
  /\ Len(qt.inserted) = MaxPoints + 1 /\ Len(Inserted) = MaxPoints + 1
  /\ qt.nodes[1].divided /\ Len(qt.nodes[1].children) = 4
  /\ qt.nodes[1].points = <<>>
  /\ Cardinality({h \in Handles : qt.nodes[h].points # <<>>}) >= 2

(* C21: an insert returns false exactly when its point lies outside the
   root's bounds; such an insert raises nothing and leaves every node's
   points and the subdivision structure as they were. *)
C21_OutsideRootRejected ==
  [][qt.nodes # <<>> /\ Len(qt'.inserted) = Len(qt.inserted) + 1 =>
       LET e == qt'.inserted[Len(qt'.inserted)]
       IN  /\ e.ret = "false" <=> ~contains(RootBounds, e.point)
           /\ e.ret = "false" => qt'.nodes = qt.nodes
    ]_vars

\* a full root was offered a point on its upper boundary: false, and the
\* root is still undivided with its points
C21_Witness ==
  /\ qt.nodes # <<>> /\ Len(qt.inserted) > qt.nodes[1].maxPoints
  /\ qt.inserted[Len(qt.inserted)].ret = "false"
  /\ qt.inserted[Len(qt.inserted)].point.x = RootSize
  /\ ~qt.nodes[1].divided /\ Len(qt.nodes) = 1
  /\ Len(qt.nodes[1].points) = qt.nodes[1].maxPoints
  /\ qt.nodes[1].maxDepth >= 1

-----------------------------------------------------------------------------
(* Numbers with a fractional part are kept exact, as pairs <<n, d>> with
   d > 0 standing for n / d. *)

RECURSIVE Gcd(_, _)
Gcd(a, b) == IF b = 0 THEN a ELSE Gcd(b, a % b)

Abs(n) == IF n < 0 THEN -n ELSE n

\* n / d in lowest terms
Frac(n, d) ==
  LET g == Gcd(Abs(n), Abs(d))
      sg == IF d < 0 THEN -1 ELSE 1
  IN  <<sg * (n \div g), sg * (d \div g)>>

Num(n) == <<n, 1>>
Times(a, b) == Frac(a[1] * b[1], a[2] * b[2])
Plus(a, b) == Frac(a[1] * b[2] + b[1] * a[2], a[2] * b[2])
Minus(a, b) == Frac(a[1] * b[2] - b[1] * a[2], a[2] * b[2])
Over(a, b) == Frac(a[1] * b[2], a[2] * b[1])
Less(a, b) == a[1] * b[2] < b[1] * a[2]

-----------------------------------------------------------------------------
(* LODManager (README, Level of Detail) *)

MaxUpdates == 2

\* the numbers updateLOD compares with: dataSize > 50000, zoomLevel < 0.5,
\* dataSize > 10000, zoomLevel < 1.0
highVolumeThreshold == 50000
midVolumeThreshold == 10000
lowZoomThreshold == <<1, 2>>
midZoomThreshold == <<1, 1>>

\* this.levels
levels ==
  [high   |-> [pointSize |-> 3, alpha |-> <<1, 1>>, maxPoints |-> 10000],
   medium |-> [pointSize |-> 2, alpha |-> <<4, 5>>, maxPoints |-> 50000],
   low    |-> [pointSize |-> 1, alpha |-> <<3, 5>>, maxPoints |-> 100000]]

\* mutant: the thresholds themselves already select the stricter level
Level_inclusive(zoomLevel, dataSize) ==
  IF dataSize >= highVolumeThreshold \/ ~Less(lowZoomThreshold, zoomLevel)
  THEN "low"
  ELSE IF dataSize >= midVolumeThreshold \/ ~Less(midZoomThreshold, zoomLevel)
  THEN "medium"
  ELSE "high"

\* mutant: low is selected above the low zoom threshold instead of below it
Level_reversed(zoomLevel, dataSize) ==
  IF dataSize > highVolumeThreshold \/ Less(lowZoomThreshold, zoomLevel)
  THEN "low"
  ELSE IF dataSize > midVolumeThreshold \/ Less(zoomLevel, midZoomThreshold)
  THEN "medium"
  ELSE "high"

\* the level updateLOD(zoomLevel, dataSize) arrives at
Level(zoomLevel, dataSize) ==
  IF dataSize > highVolumeThreshold \/ Less(zoomLevel, lowZoomThreshold)
  THEN "low"
  ELSE IF dataSize > midVolumeThreshold \/ Less(zoomLevel, midZoomThreshold)
  THEN "medium"
  ELSE "high"

\* applyLOD(level): the chart after setPointSize, setAlpha and, when it has
\* more points than the level allows, enableSubsampling
applyLOD(chart, level) ==
  LET config == levels[level]
  IN  [chart EXCEPT !.pointSize = <<config.pointSize>>,
                    !.alpha = <<config.alpha>>,
                    !.subsampling = IF chart.dataSize > config.maxPoints
                                    THEN <<config.maxPoints>> ELSE @]

\* zoom levels and data sizes on, next to and between the thresholds
ZoomLevels ==
  {<<1, 10>>, <<2, 5>>, <<1, 2>>, <<3, 5>>, <<9, 10>>, <<1, 1>>, <<11, 10>>, <<2, 1>>}

DataSizes == {0, 10000, 10001, 50000, 50001, 60000, 100001}

\* an LODManager just constructed on a chart
LODInit ==
  /\ EngineInit /\ validateData = TRUE /\ LibRest
  /\ view = NoView /\ zoomPan = NoZoomPan /\ worker = NoWorker /\ single = NoSingle
  /\ \E size \in DataSizes :
       lod = [pc |-> "ready",
              chart |-> [dataSize |-> size, pointSize |-> <<>>, alpha |-> <<>>,
                         subsampling |-> <<>>],
              calls |-> <<>>]

\* updateLOD(zoomLevel, dataSize); calls keeps the arguments and the level
updateLOD ==
  /\ lod.pc = "ready" /\ Len(lod.calls) < MaxUpdates
  /\ \E zoomLevel \in ZoomLevels, dataSize \in DataSizes :
       LET level == Level(zoomLevel, dataSize)
       IN  lod' = [lod EXCEPT
                     !.chart = applyLOD(@, level),
                     !.calls = Append(@, [zoomLevel |-> zoomLevel,
                                          dataSize |-> dataSize,
                                          level |-> level])]
  /\ UNCHANGED <<engineVars, libVars, view, zoomPan, worker, single>>

LODNext == updateLOD

LODSpec == LODInit /\ [][LODNext]_vars

(* C22: every updateLOD call selects low when dataSize is above the high
   volume threshold or the zoom level below the low zoom threshold,
   otherwise medium when dataSize is above the mid volume threshold or the
   zoom level below the mid zoom threshold, otherwise high, and the chart
   gets that level's point size; a dataSize above the high volume threshold
   gives low at every zoom level. *)
C22_TierSelection ==
  lod.pc = "ready" =>
    /\ \A i \in 1..Len(lod.calls) :
         LET c == lod.calls[i]
             lowCase == c.dataSize > highVolumeThreshold
                          \/ Less(c.zoomLevel, lowZoomThreshold)
             midCase == c.dataSize > midVolumeThreshold
                          \/ Less(c.zoomLevel, midZoomThreshold)
         IN  /\ lowCase => c.level = "low"
             /\ ~lowCase /\ midCase => c.level = "medium"
             /\ ~lowCase /\ ~midCase => c.level = "high"
             /\ c.dataSize > highVolumeThreshold => c.level = "low"
    /\ lod.calls # <<>> =>
         lod.chart.pointSize = <<levels[lod.calls[Len(lod.calls)].level].pointSize>>

\* 60000 records at zoom level 1 gave low; 50000 records at zoom level 1
\* gave medium
C22_Witness ==
  /\ lod.pc = "ready" /\ Len(lod.calls) = 2
  /\ lod.calls[1] = [zoomLevel |-> <<1, 1>>, dataSize |-> 60000, level |-> "low"]
  /\ lod.calls[2] = [zoomLevel |-> <<1, 1>>, dataSize |-> 50000, level |-> "medium"]
  /\ lod.chart.pointSize = <<2>>

(* C23: of two updateLOD calls with the same dataSize, if the one at the
   larger zoom level selected low, so did the one at the smaller. *)
C23_LowStaysLow ==
  lod.pc = "ready" =>
    \A i, j \in 1..Len(lod.calls) :
      /\ lod.calls[i].dataSize = lod.calls[j].dataSize
      /\ Less(lod.calls[j].zoomLevel, lod.calls[i].zoomLevel)
      /\ lod.calls[i].level = "low"
      => lod.calls[j].level = "low"

\* low at zoom level 2/5 by the zoom alone, then low again at 1/10
C23_Witness ==
  /\ lod.pc = "ready" /\ Len(lod.calls) = 2
  /\ lod.calls[1] = [zoomLevel |-> <<2, 5>>, dataSize |-> 10000, level |-> "low"]
  /\ lod.calls[2] = [zoomLevel |-> <<1, 10>>, dataSize |-> 10000, level |-> "low"]

-----------------------------------------------------------------------------
(* ZoomPanController (README, Zoom e Pan Otimizado) *)

MaxZooms == 3

\* the limits zoomAt compares newScale with: 0.1 and 10
minScale == <<1, 10>>
maxScale == <<10, 1>>

\* mutant: the position is adjusted before the limits are looked at
zoomAt_adjustsFirst(v, x, y, scaleFactor) ==
  LET newScale == Times(v.transform.scale, scaleFactor)
      moved == [v.transform EXCEPT
                  !.x = Minus(x, Times(Minus(x, v.transform.x), scaleFactor)),
                  !.y = Minus(y, Times(Minus(y, v.transform.y), scaleFactor))]
  IN  IF Less(newScale, minScale) \/ Less(maxScale, newScale)
      THEN [v EXCEPT !.transform = moved]
      ELSE [v EXCEPT !.transform = [moved EXCEPT !.scale = newScale],
                     !.chart.setTransform = @ + 1,
                     !.chart.render = @ + 1]

\* mutant: the position is scaled about the origin, not about (x, y)
zoomAt_aboutOrigin(v, x, y, scaleFactor) ==
  LET newScale == Times(v.transform.scale, scaleFactor)
  IN  IF Less(newScale, minScale) \/ Less(maxScale, newScale)
      THEN v
      ELSE [v EXCEPT
              !.transform = [x |-> Times(v.transform.x, scaleFactor),
                             y |-> Times(v.transform.y, scaleFactor),
                             scale |-> newScale],
              !.chart.setTransform = @ + 1,
              !.chart.render = @ + 1]

\* zoomAt(x, y, scaleFactor): the controller afterwards; chart counts the
\* setTransform and render calls it received
zoomAt(v, x, y, scaleFactor) ==
  LET newScale == Times(v.transform.scale, scaleFactor)
  IN  IF Less(newScale, minScale) \/ Less(maxScale, newScale)
      THEN v
      ELSE [v EXCEPT
              !.transform = [x |-> Minus(x, Times(Minus(x, v.transform.x), scaleFactor)),
                             y |-> Minus(y, Times(Minus(y, v.transform.y), scaleFactor)),
                             scale |-> newScale],
              !.chart.setTransform = @ + 1,
              !.chart.render = @ + 1]

\* screen = world * scale + offset, and its inverse
toScreen(transform, w) ==
  [x |-> Plus(Times(w.x, transform.scale), transform.x),
   y |-> Plus(Times(w.y, transform.scale), transform.y)]

toWorld(transform, p) ==
  [x |-> Over(Minus(p.x, transform.x), transform.scale),
   y |-> Over(Minus(p.y, transform.y), transform.scale)]

\* the wheel's two factors, factors that reach the limits exactly, factors
\* that pass them
ScaleFactors ==
  {<<9, 10>>, <<11, 10>>, <<1, 10>>, <<10, 1>>, <<1, 2>>, <<1, 20>>, <<20, 1>>}

ScreenPoints == {[x |-> Num(0), y |-> Num(0)], [x |-> Num(3), y |-> Num(5)],
                 [x |-> Num(-2), y |-> Num(7)]}

\* a ZoomPanController just constructed
ViewInit ==
  /\ EngineInit /\ validateData = TRUE /\ LibRest
  /\ lod = NoLOD /\ zoomPan = NoZoomPan /\ worker = NoWorker /\ single = NoSingle
  /\ view = [pc |-> "ready",
             transform |-> [x |-> Num(0), y |-> Num(0), scale |-> Num(1)],
             chart |-> [setTransform |-> 0, render |-> 0],
             calls |-> <<>>]

\* zoomAt is called, by the wheel or touchmove listener or directly; calls
\* keeps the arguments
ZoomPanController_zoomAt ==
  /\ view.pc = "ready" /\ Len(view.calls) < MaxZooms
  /\ \E p \in ScreenPoints, scaleFactor \in ScaleFactors :
       view' = [zoomAt(view, p.x, p.y, scaleFactor) EXCEPT
                  !.calls = Append(@, [x |-> p.x, y |-> p.y,
                                       scaleFactor |-> scaleFactor])]
  /\ UNCHANGED <<engineVars, libVars, lod, zoomPan, worker, single>>

ViewNext == ZoomPanController_zoomAt

ViewSpec == ViewInit /\ [][ViewNext]_vars

\* the call made in this step, when the step is a zoomAt call
ZoomCall == view'.calls[Len(view'.calls)]
Zooms == view.pc = "ready" /\ Len(view'.calls) = Len(view.calls) + 1

\* the scale the call made in this step would arrive at lies outside the limits
OutOfLimits ==
  LET newScale == Times(view.transform.scale, ZoomCall.scaleFactor)
  IN  Less(newScale, minScale) \/ Less(maxScale, newScale)

(* C24: a zoomAt call whose resulting scale, the current scale times
   scaleFactor, lies outside [0.1, 10] changes neither scale nor offsets
   and makes no setTransform or render call on the chart. *)
C24_RejectedZoomIsNoOp ==
  [][Zooms /\ OutOfLimits =>
       view'.transform = view.transform /\ view'.chart = view.chart]_vars

\* a zoom was accepted away from the origin, then one past the upper limit
\* was made: scale 10, offsets not 0, two calls, one update of the chart
C24_Witness ==
  /\ view.pc = "ready" /\ Len(view.calls) = 2
  /\ view.transform.scale = maxScale
  /\ view.transform.x # Num(0) /\ view.transform.y # Num(0)
  /\ view.calls[2].scaleFactor = <<11, 10>>
  /\ view.chart = [setTransform |-> 1, render |-> 1]

(* C25: an accepted zoomAt(sx, sy, f) keeps the world point under (sx, sy)
   under (sx, sy): the new offset is s - (s - offset) * f on each axis, the
   new scale is scale * f, and the world point that was under the screen
   point is mapped back to it by the new transform. *)
C25_ZoomKeepsAnchor ==
  [][Zooms /\ ~OutOfLimits =>
       LET c == ZoomCall
           s == [x |-> c.x, y |-> c.y]
           f == c.scaleFactor
       IN  /\ view'.transform.x = Minus(s.x, Times(Minus(s.x, view.transform.x), f))
           /\ view'.transform.y = Minus(s.y, Times(Minus(s.y, view.transform.y), f))
           /\ view'.transform.scale = Times(view.transform.scale, f)
           /\ toScreen(view'.transform, toWorld(view.transform, s)) = s
           /\ toWorld(view'.transform, s) = toWorld(view.transform, s)
    ]_vars

\* two accepted wheel zooms at different screen points, neither the origin
C25_Witness ==
  /\ view.pc = "ready" /\ Len(view.calls) = 2
  /\ view.chart.setTransform = 2
  /\ view.calls[1].x = Num(3) /\ view.calls[2].x = Num(-2)
  /\ view.calls[1].scaleFactor = <<11, 10>> /\ view.calls[2].scaleFactor = <<9, 10>>
  /\ view.transform.scale = <<99, 100>>

-----------------------------------------------------------------------------
(* ZoomPan (ZoomPan.js).  The container's listeners are kept as the list
   addEventListener built: each entry has its event type, the method that
   was bound and the identity of the function object that bind returned
   (every bind call returns a new one). *)

MaxSteps == 4

\* Math.max, Math.min on numbers
MathMax(a, b) == IF Less(a, b) THEN b ELSE a
MathMin(a, b) == IF Less(b, a) THEN b ELSE a

\* triggerCallbacks(event, data): every callback registered for the event
\* is called with data, in order of registration
triggerCallbacks(z, event, data) ==
  [z EXCEPT !.notified =
     @ \o [i \in 1..Len(z.callbacks[event]) |->
             [event |-> event, callback |-> z.callbacks[event][i], data |-> data]]]

\* handleWheel(event)
handleWheel(z, event) ==
  LET delta == IF event.deltaY > 0
               THEN Minus(Num(0), z.options.zoomStep) ELSE z.options.zoomStep
      newZoom == MathMax(z.options.minZoom,
                         MathMin(z.options.maxZoom, Plus(z.zoomLevel, delta)))
  IN  IF newZoom # z.zoomLevel
      THEN triggerCallbacks([z EXCEPT !.zoomLevel = newZoom], "onZoom",
                            [zoom |-> newZoom, centerX |-> event.clientX,
                             centerY |-> event.clientY])
      ELSE z

\* handleMouseDown(event)
handleMouseDown(z, event) ==
  IF event.button = 0
  THEN triggerCallbacks(
         [z EXCEPT !.isDragging = TRUE, !.lastX = event.clientX,
                   !.lastY = event.clientY, !.cursor = "grabbing",
                   !.drag = [x |-> event.clientX, y |-> event.clientY,
                             panX |-> z.panX, panY |-> z.panY, whole |-> TRUE]],
         "onInteractionStart",
         [type |-> "pan", x |-> event.clientX, y |-> event.clientY])
  ELSE z

\* mutant: the last pointer position is not moved on
handleMouseMove_keepsLast(z, event) ==
  LET deltaX == event.clientX - z.lastX
      deltaY == event.clientY - z.lastY
  IN  IF z.isDragging
      THEN triggerCallbacks(
             [z EXCEPT !.panX = @ + deltaX, !.panY = @ + deltaY],
             "onPan",
             [panX |-> z.panX + deltaX, panY |-> z.panY + deltaY,
              deltaX |-> deltaX, deltaY |-> deltaY])
      ELSE z

\* handleMouseMove(event)
handleMouseMove(z, event) ==
  LET deltaX == event.clientX - z.lastX
      deltaY == event.clientY - z.lastY
  IN  IF z.isDragging
      THEN triggerCallbacks(
             [z EXCEPT !.panX = @ + deltaX, !.panY = @ + deltaY,
                       !.lastX = event.clientX, !.lastY = event.clientY],
             "onPan",
             [panX |-> z.panX + deltaX, panY |-> z.panY + deltaY,
              deltaX |-> deltaX, deltaY |-> deltaY])
      ELSE z

\* handleMouseUp(event)
handleMouseUp(z, event) ==
  IF z.isDragging
  THEN triggerCallbacks(
         [z EXCEPT !.isDragging = FALSE, !.cursor = "default"],
         "onInteractionEnd",
         [type |-> "pan", x |-> event.clientX, y |-> event.clientY])
  ELSE z

\* container.addEventListener(type, this[method].bind(this)): bind returns
\* function object number z.binds + 1
addEventListener(z, type, method) ==
  [z EXCEPT !.binds = @ + 1,
            !.listeners = Append(@, [type |-> type, method |-> method,
                                     fn |-> z.binds + 1])]

\* container.removeEventListener(type, this[method].bind(this)): the
\* listener of that type that is this very function object is taken off
removeEventListener(z, type, method) ==
  LET fn == z.binds + 1
  IN  [z EXCEPT !.binds = fn,
                !.listeners = SelectSeq(@, LAMBDA l :
                                ~(l.type = type /\ l.method = method /\ l.fn = fn))]

\* init()
init(z) ==
  LET a == IF z.options.enableZoom
           THEN addEventListener(z, "wheel", "handleWheel") ELSE z
      b == IF z.options.enablePan
           THEN addEventListener(
                  addEventListener(
                    addEventListener(
                      addEventListener(a, "mousedown", "handleMouseDown"),
                      "mousemove", "handleMouseMove"),
                    "mouseup", "handleMouseUp"),
                  "mouseleave", "handleMouseUp")
           ELSE a
  IN  addEventListener(b, "contextmenu", "preventDefault")

\* setTransform(transform), each field of transform given or not
setTransform(z, transform) ==
  [z EXCEPT
     !.zoomLevel = IF transform.zoom # <<>>
                   THEN MathMax(z.options.minZoom,
                                MathMin(z.options.maxZoom, transform.zoom[1]))
                   ELSE @,
     !.panX = IF transform.panX # <<>> THEN transform.panX[1] ELSE @,
     !.panY = IF transform.panY # <<>> THEN transform.panY[1] ELSE @,
     !.drag.whole = FALSE]

\* mutant: the pan callbacks are notified before the zoom callbacks
reset_panFirst(z) ==
  LET r == [z EXCEPT !.zoomLevel = Num(1), !.panX = 0, !.panY = 0,
                     !.drag.whole = FALSE]
  IN  triggerCallbacks(
        triggerCallbacks(r, "onPan", [panX |-> r.panX, panY |-> r.panY]),
        "onZoom", [zoom |-> r.zoomLevel])

\* reset()
reset(z) ==
  LET r == [z EXCEPT !.zoomLevel = Num(1), !.panX = 0, !.panY = 0,
                     !.drag.whole = FALSE]
  IN  triggerCallbacks(
        triggerCallbacks(r, "onZoom", [zoom |-> r.zoomLevel]),
        "onPan", [panX |-> r.panX, panY |-> r.panY])

\* destroy()
destroy(z) ==
  [removeEventListener(
     removeEventListener(
       removeEventListener(
         removeEventListener(
           removeEventListener(
             removeEventListener(z, "wheel", "handleWheel"),
             "mousedown", "handleMouseDown"),
           "mousemove", "handleMouseMove"),
         "mouseup", "handleMouseUp"),
       "mouseleave", "handleMouseUp"),
     "contextmenu", "preventDefault")
   EXCEPT !.destroyed = TRUE]

\* the listener l is called with event
Call(z, l, event) ==
  CASE l.method = "handleWheel" -> handleWheel(z, event)
    [] l.method = "handleMouseDown" -> handleMouseDown(z, event)
    [] l.method = "handleMouseMove" -> handleMouseMove(z, event)
    [] l.method = "handleMouseUp" -> handleMouseUp(z, event)
    [] OTHER -> z

RECURSIVE Dispatch(_, _, _)
\* the container dispatches event: its listeners of that type, from the
\* k-th on, are called in the order they were added
Dispatch(z, event, k) ==
  IF k > Len(z.listeners)
  THEN z
  ELSE Dispatch(IF z.listeners[k].type = event.type
                THEN Call(z, z.listeners[k], event) ELSE z,
                event, k + 1)

\* the options of the constructor: the defaults, zoom or pan disabled, and
\* narrow limits with a large step
DefaultOptions ==
  [minZoom |-> <<1, 10>>, maxZoom |-> <<10, 1>>, zoomStep |-> <<1, 10>>,
   enablePan |-> TRUE, enableZoom |-> TRUE]

ZoomPanOptions ==
  { DefaultOptions,
    [DefaultOptions EXCEPT !.enableZoom = FALSE],
    [DefaultOptions EXCEPT !.enablePan = FALSE],
    [DefaultOptions EXCEPT !.minZoom = <<1, 2>>, !.maxZoom = <<2, 1>>,
                           !.zoomStep = <<1, 1>>],
    [DefaultOptions EXCEPT !.minZoom = <<2, 1>>, !.zoomStep = <<4, 1>>] }

\* the callbacks registered with on(): none, or two for onZoom and one for
\* each other event
NoCallbacks ==
  [onZoom |-> <<>>, onPan |-> <<>>, onInteractionStart |-> <<>>,
   onInteractionEnd |-> <<>>]

SomeCallbacks ==
  [onZoom |-> <<"z1", "z2">>, onPan |-> <<"p1">>, onInteractionStart |-> <<"s1">>,
   onInteractionEnd |-> <<"e1">>]

\* new ZoomPan(container, options), then the on() calls
ZoomPanOf(options, callbacks) ==
  [init([pc |-> "ready", options |-> options,
         zoomLevel |-> Num(1), panX |-> 0, panY |-> 0,
         isDragging |-> FALSE, lastX |-> 0, lastY |-> 0,
         callbacks |-> NoCallbacks,
         listeners |-> <<>>, binds |-> 0, cursor |-> "",
         destroyed |-> FALSE, notified |-> <<>>, steps |-> 0,
         op |-> [type |-> "new"],
         drag |-> [x |-> 0, y |-> 0, panX |-> 0, panY |-> 0, whole |-> FALSE]])
   EXCEPT !.callbacks = callbacks]

ZoomPanInit ==
  /\ EngineInit /\ validateData = TRUE /\ LibRest
  /\ lod = NoLOD /\ view = NoView /\ worker = NoWorker /\ single = NoSingle
  /\ \E options \in ZoomPanOptions, callbacks \in {NoCallbacks, SomeCallbacks} :
       zoomPan = ZoomPanOf(options, callbacks)

\* pointer positions, wheel directions, buttons
Pointers == {[x |-> 0, y |-> 0], [x |-> 2, y |-> 5], [x |-> -3, y |-> 1]}

\* the instance as a step starts: nothing notified yet; op keeps the event
\* dispatched or the method called
Stepping(op) == [zoomPan EXCEPT !.notified = <<>>, !.steps = @ + 1, !.op = op]

\* the container dispatches event
Fire(event) == Dispatch(Stepping(event), event, 1)

CanStep == zoomPan.pc = "ready" /\ zoomPan.steps < MaxSteps

Rest == UNCHANGED <<engineVars, libVars, lod, view, worker, single>>

\* a wheel event on the container
ZoomPan_wheel ==
  /\ CanStep
  /\ \E deltaY \in {-1, 1}, p \in Pointers :
       zoomPan' = Fire([type |-> "wheel", deltaY |-> deltaY,
                                      clientX |-> p.x, clientY |-> p.y])
  /\ Rest

\* a mousedown event on the container
ZoomPan_mousedown ==
  /\ CanStep
  /\ \E button \in {0, 2}, p \in Pointers :
       zoomPan' = Fire([type |-> "mousedown", button |-> button,
                                      clientX |-> p.x, clientY |-> p.y])
  /\ Rest

\* a mousemove event on the container
ZoomPan_mousemove ==
  /\ CanStep
  /\ \E p \in Pointers :
       zoomPan' = Fire([type |-> "mousemove",
                                      clientX |-> p.x, clientY |-> p.y])
  /\ Rest

\* a mouseup event on the container
ZoomPan_mouseup ==
  /\ CanStep
  /\ \E p \in Pointers :
       zoomPan' = Fire([type |-> "mouseup",
                                      clientX |-> p.x, clientY |-> p.y])
  /\ Rest

\* a mouseleave event on the container
ZoomPan_mouseleave ==
  /\ CanStep
  /\ \E p \in Pointers :
       zoomPan' = Fire([type |-> "mouseleave",
                                      clientX |-> p.x, clientY |-> p.y])
  /\ Rest

\* setTransform(transform) is called
ZoomPan_setTransform ==
  /\ CanStep
  /\ \E transform \in {[zoom |-> <<<<20, 1>>>>, panX |-> <<>>, panY |-> <<>>],
                       [zoom |-> <<>>, panX |-> <<4>>, panY |-> <<-4>>]} :
       zoomPan' = setTransform(Stepping([type |-> "setTransform"]), transform)
  /\ Rest

\* reset() is called
ZoomPan_reset ==
  /\ CanStep
  /\ zoomPan' = reset(Stepping([type |-> "reset"]))
  /\ Rest

\* destroy() is called
ZoomPan_destroy ==
  /\ CanStep /\ ~zoomPan.destroyed
  /\ zoomPan' = destroy(Stepping([type |-> "destroy"]))
  /\ Rest

ZoomPanNext ==
  \/ ZoomPan_wheel \/ ZoomPan_mousedown \/ ZoomPan_mousemove
  \/ ZoomPan_mouseup \/ ZoomPan_mouseleave
  \/ ZoomPan_setTransform \/ ZoomPan_reset \/ ZoomPan_destroy

ZoomPanSpec == ZoomPanInit /\ [][ZoomPanNext]_vars

\* this step is a call or an event of one of the types
ZoomPanStep(types) ==
  /\ zoomPan.pc = "ready" /\ zoomPan'.steps = zoomPan.steps + 1
  /\ zoomPan'.op.type \in types

PointerEvents == {"mousedown", "mousemove", "mouseup", "mouseleave"}

(* C26: a mousemove during a drag adds the pointer's movement since the
   last pointer position to panX and panY, whatever they and the zoom level
   are and without clamping; no pointer event changes the zoom level; from
   mouse down on, as long as only the drag changes the pan offsets, they
   have changed by the last pointer position minus the position at mouse
   down. *)
C26_PanAddsPointerDelta ==
  /\ [][/\ ZoomPanStep({"mousemove"}) /\ zoomPan.isDragging
             => /\ zoomPan'.panX = zoomPan.panX + (zoomPan'.op.clientX - zoomPan.lastX)
                /\ zoomPan'.panY = zoomPan.panY + (zoomPan'.op.clientY - zoomPan.lastY)
        /\ ZoomPanStep(PointerEvents) => zoomPan'.zoomLevel = zoomPan.zoomLevel
      ]_vars
  /\ [](zoomPan.pc = "ready" /\ zoomPan.drag.whole
          => /\ zoomPan.panX - zoomPan.drag.panX = zoomPan.lastX - zoomPan.drag.x
             /\ zoomPan.panY - zoomPan.drag.panY = zoomPan.lastY - zoomPan.drag.y)

\* a drag of two moves from offsets that were not 0: mouse down at one
\* pointer position, the last move at another
C26_Witness ==
  /\ zoomPan.pc = "ready" /\ zoomPan.drag.whole /\ zoomPan.isDragging
  /\ zoomPan.op.type = "mousemove" /\ zoomPan.steps = 4
  /\ zoomPan.drag.panX = 4 /\ zoomPan.drag.x = 2 /\ zoomPan.lastX = -3
  /\ zoomPan.panX = -1 /\ zoomPan.panY = -8

(* C27: a reset() call leaves the zoom level 1 and both pan offsets 0, and
   notifies the onZoom callbacks, in the order registered, with zoom 1 and
   then the onPan callbacks with panX 0 and panY 0, and nothing else. *)
C27_ResetRestores ==
  [][ZoomPanStep({"reset"}) =>
       /\ zoomPan'.zoomLevel = Num(1) /\ zoomPan'.panX = 0 /\ zoomPan'.panY = 0
       /\ zoomPan'.notified =
            [i \in 1..Len(zoomPan.callbacks.onZoom) |->
               [event |-> "onZoom", callback |-> zoomPan.callbacks.onZoom[i],
                data |-> [zoom |-> Num(1)]]]
            \o [i \in 1..Len(zoomPan.callbacks.onPan) |->
                  [event |-> "onPan", callback |-> zoomPan.callbacks.onPan[i],
                   data |-> [panX |-> 0, panY |-> 0]]]
    ]_vars

\* reset() was called in the middle of a drag that had moved the offsets:
\* two onZoom callbacks and one onPan callback were notified
C27_Witness ==
  /\ zoomPan.pc = "ready" /\ zoomPan.op.type = "reset" /\ zoomPan.steps >= 3
  /\ zoomPan.isDragging /\ zoomPan.lastX # zoomPan.drag.x
  /\ Len(zoomPan.notified) = 3
  /\ zoomPan.zoomLevel = Num(1) /\ zoomPan.panX = 0

(* C28: after destroy() the container has none of the instance's listeners,
   and no wheel, mousedown, mousemove, mouseup or mouseleave event changes
   zoomLevel, panX, panY or isDragging or notifies a callback. *)
C28_DestroyDetaches ==
  /\ [](zoomPan.pc = "ready" /\ zoomPan.destroyed => zoomPan.listeners = <<>>)
  /\ [][ZoomPanStep(PointerEvents \cup {"wheel"}) /\ zoomPan.destroyed
          => /\ zoomPan'.zoomLevel = zoomPan.zoomLevel
             /\ zoomPan'.panX = zoomPan.panX /\ zoomPan'.panY = zoomPan.panY
             /\ zoomPan'.isDragging = zoomPan.isDragging
             /\ zoomPan'.notified = <<>>
       ]_vars

-----------------------------------------------------------------------------
(* dataProcessor.worker.js.  A record is [value, status], each field given
   (<<v>>) or missing (<<>>); a result is a number, an array or null. *)

MaxPosts == 2
MaxRecords == 2

RECURSIVE Reduce(_, _, _)
\* data.reduce((acc, item) => acc + (item.value || 0), acc) from item k on
Reduce(data, acc, k) ==
  IF k > Len(data)
  THEN acc
  ELSE Reduce(data,
              acc + (IF data[k].value = <<>> \/ data[k].value = <<0>>
                     THEN 0 ELSE data[k].value[1]),
              k + 1)

\* mutant: a missing value counts as 1
aggregate_missingAsOne(data) ==
  LET counted == [k \in 1..Len(data) |->
                    IF data[k].value = <<>> THEN [data[k] EXCEPT !.value = <<1>>]
                    ELSE data[k]]
  IN  Reduce(counted, 0, 1)

\* case 'aggregate'
aggregate(data) == Reduce(data, 0, 1)

\* case 'filter': data.filter(item => item.status === 'active')
filterActive(data) == SelectSeq(data, LAMBDA item : item.status = <<"active">>)

\* the message self.onmessage posts for a request
ResponseTo(request) ==
  [type |-> request.type,
   result |-> CASE request.type = "aggregate"
                     -> [t |-> "number", v |-> aggregate(request.data[1])]
                [] request.type = "filter"
                     -> [t |-> "array", v |-> filterActive(request.data[1])]
                [] OTHER -> [t |-> "null"]]

\* mutant: a request of another type is taken and not answered
onmessage_silentDefault(w) ==
  LET request == Head(w.inbox)
  IN  IF request.type \in {"aggregate", "filter"}
      THEN [w EXCEPT !.inbox = Tail(@), !.responses = Append(@, ResponseTo(request))]
      ELSE [w EXCEPT !.inbox = Tail(@)]

\* self.onmessage(e) for the oldest message not yet delivered
onmessage(w) ==
  LET request == Head(w.inbox)
  IN  [w EXCEPT !.inbox = Tail(@), !.responses = Append(@, ResponseTo(request))]

\* the records and the arrays of records sent
Records ==
  [value : {<<>>, <<3>>, <<-2>>}, status : {<<>>, <<"active">>, <<"inactive">>}]

RecordArrays == UNION {[1..k -> Records] : k \in 0..MaxRecords}

\* the requests posted: aggregate and filter with an array of records,
\* cluster and a type the protocol does not have, with data or without
Requests ==
  {[type |-> t, data |-> <<d>>] : t \in {"aggregate", "filter"}, d \in RecordArrays}
    \cup {[type |-> t, data |-> <<>>] : t \in {"cluster", "transform"}}
    \cup {[type |-> "cluster", data |-> << <<[value |-> <<3>>, status |-> <<>>]>> >>]}

\* new Worker(...): nothing posted yet
WorkerInit ==
  /\ EngineInit /\ validateData = TRUE /\ LibRest
  /\ lod = NoLOD /\ view = NoView /\ zoomPan = NoZoomPan /\ single = NoSingle
  /\ worker = [pc |-> "ready", posted |-> <<>>, inbox |-> <<>>, responses |-> <<>>]

\* worker.postMessage(request) on the main thread
postMessage ==
  /\ worker.pc = "ready" /\ Len(worker.posted) < MaxPosts
  /\ \E request \in Requests :
       worker' = [worker EXCEPT !.posted = Append(@, request),
                                !.inbox = Append(@, request)]
  /\ UNCHANGED <<engineVars, libVars, lod, view, zoomPan, single>>

\* the worker's event loop delivers the oldest message to self.onmessage
Worker_onmessage ==
  /\ worker.pc = "ready" /\ worker.inbox # <<>>
  /\ worker' = onmessage(worker)
  /\ UNCHANGED <<engineVars, libVars, lod, view, zoomPan, single>>

WorkerNext == postMessage \/ Worker_onmessage

WorkerSpec == WorkerInit /\ [][WorkerNext]_vars

\* the worker's event loop runs on: a delivered message is handled
WorkerFairSpec == WorkerSpec /\ WF_vars(Worker_onmessage)

\* the requests answered so far are the first ones posted, one response each
Answered == 1..Len(worker.responses)

(* C29: every request posted is answered by exactly one response, of the
   request's type: the responses are never more than the requests, the
   n-th response has the n-th request's type, a request whose type is
   neither aggregate nor filter gets the result null, equal requests get
   equal responses whatever was handled before them, and every request
   posted is eventually answered. *)
C29_OneResponsePerRequest ==
  /\ [](worker.pc = "ready" =>
          /\ Len(worker.responses) + Len(worker.inbox) = Len(worker.posted)
          /\ \A n \in Answered :
               /\ worker.responses[n].type = worker.posted[n].type
               /\ worker.posted[n].type \notin {"aggregate", "filter"}
                    => worker.responses[n].result = [t |-> "null"]
          /\ \A m, n \in Answered :
               worker.posted[m] = worker.posted[n]
                 => worker.responses[m] = worker.responses[n])
  /\ \A n \in 1..MaxPosts :
       (worker.pc = "ready" /\ Len(worker.posted) >= n)
         ~> (Len(worker.responses) >= n)

\* a filter request and a request of a type the worker does not have, both
\* posted before either was handled, both answered, the second with null
C29_Witness ==
  /\ worker.pc = "ready" /\ Len(worker.posted) = 2 /\ Len(worker.responses) = 2
  /\ worker.posted[1].type = "filter" /\ worker.posted[2].type = "transform"
  /\ worker.responses[1].type = "filter" /\ worker.responses[1].result.v # <<>>
  /\ worker.responses[2] = [type |-> "transform", result |-> [t |-> "null"]]

RECURSIVE SumOfValues(_)
\* the sum of the value fields, a missing one counted as 0
SumOfValues(data) ==
  IF data = <<>>
  THEN 0
  ELSE (IF Head(data).value = <<>> THEN 0 ELSE Head(data).value[1])
         + SumOfValues(Tail(data))

\* sub is data with some records left out, the others in their order
RECURSIVE IsSubsequence(_, _)
IsSubsequence(sub, data) ==
  IF sub = <<>> THEN TRUE
  ELSE IF data = <<>> THEN FALSE
  ELSE IF Head(sub) = Head(data) THEN IsSubsequence(Tail(sub), Tail(data))
  ELSE IsSubsequence(sub, Tail(data))

(* C30: the result of an aggregate request is the sum of the records'
   value fields, a missing value counted as 0; the result of a filter
   request is the records whose status is 'active', all of them and no
   other, in the order they have in data. *)
C30_AggregateAndFilter ==
  worker.pc = "ready" =>
    \A n \in Answered :
      LET request == worker.posted[n]
          result == worker.responses[n].result
      IN  /\ request.type = "aggregate"
               => result.t = "number" /\ result.v = SumOfValues(request.data[1])
          /\ request.type = "filter"
               => /\ result.t = "array"
                  /\ IsSubsequence(result.v, request.data[1])
                  /\ \A k \in 1..Len(result.v) : result.v[k].status = <<"active">>
                  /\ Len(result.v)
                       = Cardinality({k \in 1..Len(request.data[1]) :
                                        request.data[1][k].status = <<"active">>})

\* an aggregate over a record without value and a record with one, and a
\* filter that kept one of two records
C30_Witness ==
  /\ worker.pc = "ready" /\ Len(worker.responses) = 2
  /\ worker.posted[1].type = "aggregate" /\ worker.posted[2].type = "filter"
  /\ worker.posted[1].data[1] = <<[value |-> <<>>, status |-> <<"active">>],
                                  [value |-> <<-2>>, status |-> <<>>]>>
  /\ worker.responses[1].result = [t |-> "number", v |-> -2]
  /\ Len(worker.posted[2].data[1]) = 2 /\ Len(worker.responses[2].result.v) = 1
  /\ worker.posted[2].data[1][1].status = <<"inactive">>

-----------------------------------------------------------------------------
(* The two CSV parsers on their own: DataEngine._parseCSV and
   DataLoader._parseCSV with the default options (delimiter ',', header
   true), each called once on a text. *)

MaxChars == 5

\* the texts parsed: every text of up to MaxChars characters out of a
\* letter, a digit, the comma, the line feed and the double quote, and the
\* text "x,y\n1,2\n3,4"
CsvChars == {"a", "1", ",", "\n", "\""}

CsvTexts ==
  UNION {[1..k -> CsvChars] : k \in 0..MaxChars}
    \cup {<<"x", ",", "y", "\n", "1", ",", "2", "\n", "3", ",", "4">>}

CsvInit ==
  /\ EngineInit /\ validateData = TRUE /\ LibRest
  /\ lod = NoLOD /\ view = NoView /\ zoomPan = NoZoomPan /\ worker = NoWorker
  /\ \E text \in CsvTexts :
       single = [pc |-> "csv", text |-> text, parser |-> "none", result |-> <<>>]

\* dataEngine._parseCSV(text) is called and returns
Engine_parseCSV ==
  /\ single.pc = "csv" /\ single.parser = "none"
  /\ single' = [single EXCEPT !.parser = "DataEngine",
                              !.result = _parseCSV(single.text)]
  /\ UNCHANGED <<engineVars, libVars, lod, view, zoomPan, worker>>

\* dataLoader._parseCSV(text, { delimiter: ',', header: true }) is called
\* and returns
Loader_parseCSV ==
  /\ single.pc = "csv" /\ single.parser = "none"
  /\ single' = [single EXCEPT !.parser = "DataLoader",
                              !.result = DataLoader_parseCSV(single.text, ",", TRUE).v]
  /\ UNCHANGED <<engineVars, libVars, lod, view, zoomPan, worker>>

CsvNext == Engine_parseCSV \/ Loader_parseCSV

CsvSpec == CsvInit /\ [][CsvNext]_vars

\* the lines of text that are not blank, in order
NonBlankLines(text) == SelectSeq(Split(text, "\n"), LAMBDA l : Trim(l) # <<>>)

\* the fields of a line, each without the double quotes around it
Unquoted(field) ==
  LET c == Trim(field)
  IN  IF Len(c) >= 2 /\ c[1] = "\"" /\ c[Len(c)] = "\""
      THEN SubSeq(c, 2, Len(c) - 1) ELSE c

Fields(line) ==
  LET raw == Split(line, ",")
  IN  [k \in 1..Len(raw) |-> Unquoted(raw[k])]

\* every double quote of text is one of a pair around a field: the text
\* needs no escaping
PlainQuotes(text) ==
  \A i \in 1..Len(NonBlankLines(text)) :
    \A k \in 1..Len(Fields(NonBlankLines(text)[i])) :
      \A j \in 1..Len(Fields(NonBlankLines(text)[i])[k]) :
        Fields(NonBlankLines(text)[i])[k][j] # "\""

(* C31: the records returned are one per non-blank line after the first
   non-blank line, in line order; each has the header names as its keys
   and under each header name the field at the header's position, as a
   string without the double quotes around it, the empty string when the
   line has no such field; a text without a non-blank line gives no
   record.  (For texts whose double quotes all stand around a field.) *)
C31_CsvRecords ==
  single.pc = "csv" /\ single.parser # "none" /\ PlainQuotes(single.text) =>
    LET lines == NonBlankLines(single.text)
        headers == Fields(lines[1])
        records == single.result
    IN  IF lines = <<>> THEN records = <<>>
        ELSE /\ Len(records) = Len(lines) - 1
             /\ \A i \in 1..Len(records) :
                  LET values == Fields(lines[i + 1])
                  IN  /\ \A p \in 1..Len(records[i]) :
                           \E k \in 1..Len(headers) : records[i][p][1] = Join(headers[k])
                      /\ \A k \in 1..Len(headers) :
                           (\A m \in (k + 1)..Len(headers) : headers[m] # headers[k])
                             => GetProp(records[i], Join(headers[k]))
                                  = IF k <= Len(values) THEN StrLit(values[k])
                                    ELSE "\"\""

-----------------------------------------------------------------------------
(* The choice of the parser for a URL load on its own:
   DataEngine._loadFromUrl after an ok response, and DataLoader.load. *)

\* the URLs loaded: a path with one of these endings
UrlEndings ==
  { <<".", "j", "s", "o", "n">>, <<".", "c", "s", "v">>, <<".", "x", "m", "l">>,
    <<".", "t", "x", "t">>, <<".", "J", "S", "O", "N">>,
    <<".", "c", "s", "v", "?", "v", "=", "1">>, <<>> }

Urls == {<<"/", "d">> \o e : e \in UrlEndings}

\* the content-type header of the response; the empty text stands for a
\* response without one (contentType?.includes(...) is then undefined)
ContentTypes ==
  { APPJSON, APPJSON \o <<";", " ", "c", "h", "a", "r", "s", "e", "t", "=", "u", "t", "f", "-", "8">>,
    TEXTCSV, <<"a", "p", "p", "l", "i", "c", "a", "t", "i", "o", "n", "/", "x", "m", "l">>,
    <<"t", "e", "x", "t", "/", "p", "l", "a", "i", "n">>, <<>> }

Formats == {"undefined", "auto", "json", "csv", "xml", "text"}

FormatInit ==
  /\ EngineInit /\ validateData = TRUE /\ LibRest
  /\ lod = NoLOD /\ view = NoView /\ zoomPan = NoZoomPan /\ worker = NoWorker
  /\ \E url \in Urls, format \in Formats, contentType \in ContentTypes :
       single = [pc |-> "format", url |-> url, format |-> format,
                 contentType |-> contentType, api |-> "none", parser |-> "none"]

\* dataEngine._loadFromUrl(url, { format }) gets an ok response and picks
\* the parser of its body
Engine_selectParser ==
  /\ single.pc = "format" /\ single.api = "none"
  /\ single' = [single EXCEPT
       !.api = "DataEngine",
       !.parser = EngineParser([NoOptions EXCEPT !.format = single.format],
                               [contentType |-> single.contentType])]
  /\ UNCHANGED <<engineVars, libVars, lod, view, zoomPan, worker>>

\* dataLoader.load(url, format, {}) picks the loader
Loader_selectParser ==
  /\ single.pc = "format" /\ single.api = "none"
  /\ single' = [single EXCEPT
       !.api = "DataLoader",
       !.parser = DataLoader_format([t |-> "string", v |-> single.url],
                                    [NoOptions EXCEPT !.format = single.format])]
  /\ UNCHANGED <<engineVars, libVars, lod, view, zoomPan, worker>>

FormatNext == Engine_selectParser \/ Loader_selectParser

FormatSpec == FormatInit /\ [][FormatNext]_vars

\* the format a content-type names, "none" when it names none of the four
FormatOfContentType(contentType) ==
  IF Includes(contentType, <<"j", "s", "o", "n">>) THEN "json"
  ELSE IF Includes(contentType, <<"c", "s", "v">>) THEN "csv"
  ELSE IF Includes(contentType, <<"x", "m", "l">>) THEN "xml"
  ELSE IF Includes(contentType, <<"p", "l", "a", "i", "n">>) THEN "text"
  ELSE "none"

\* the format the file extension of a URL names, "none" when it names none
FormatOfExtension(url) ==
  LET path == Split(url, "?")[1]
      ending(e) == Len(path) >= Len(e) /\ SubSeq(path, Len(path) - Len(e) + 1, Len(path)) = e
  IN  IF ending(<<".", "j", "s", "o", "n">>) \/ ending(<<".", "J", "S", "O", "N">>) THEN "json"
      ELSE IF ending(<<".", "c", "s", "v">>) THEN "csv"
      ELSE IF ending(<<".", "x", "m", "l">>) THEN "xml"
      ELSE IF ending(<<".", "t", "x", "t">>) THEN "text"
      ELSE "none"

(* C32: the parser picked for a URL load is one of json, csv, xml and text;
   with format json, csv, xml or text it is the parser of that format; with
   format 'auto' or no format it is the parser of the format that the
   response's content-type (DataEngine) or the URL's extension (DataLoader)
   names, when that names a format the component can detect. *)
C32_ParserSelected ==
  single.pc = "format" /\ single.api # "none" =>
    /\ single.parser \in {"json", "csv", "xml", "text"}
    /\ single.format \in {"json", "csv", "xml", "text"} => single.parser = single.format
    /\ single.format \in {"auto", "undefined"} /\ single.api = "DataEngine"
         /\ FormatOfContentType(single.contentType) \in {"json", "csv", "text"}
         => single.parser = FormatOfContentType(single.contentType)
    /\ single.format = "undefined" /\ single.api = "DataLoader"
         /\ FormatOfExtension(single.url) # "none"
         => single.parser = FormatOfExtension(single.url)

-----------------------------------------------------------------------------
(* The cache on its own: any sequence of set, get and clear, with time
   passing in between.  maxSize is maxCacheSize and every entry has the
   engine's ttl. *)

MaxOps == 4

CacheKeys == {"a", "b", "c"}

CacheValues == {1, 2}

CacheInit ==
  /\ EngineInit /\ validateData = TRUE /\ LibRest
  /\ lod = NoLOD /\ view = NoView /\ zoomPan = NoZoomPan /\ worker = NoWorker
  /\ single = [pc |-> "cache", cache |-> <<>>, now |-> 0, ops |-> 0,
               op |-> "none", key |-> "", value |-> 0, got |-> <<>>,
               before |-> <<>>, sets |-> <<>>, read |-> {}]

\* cache.set(key, value); sets lists the keys set so far, in order, and read
\* holds the keys whose values a get has returned
DataCache_set(key, value) ==
  /\ single.pc = "cache" /\ single.ops < MaxOps
  /\ single' = [single EXCEPT
       !.cache = CacheAfterSet(single.cache, key, value, single.now),
       !.ops = @ + 1, !.op = "set", !.key = key, !.value = value, !.got = <<>>,
       !.before = single.cache, !.sets = Append(@, key)]
  /\ UNCHANGED <<engineVars, libVars, lod, view, zoomPan, worker>>

\* cache.get(key)
DataCache_get(key) ==
  /\ single.pc = "cache" /\ single.ops < MaxOps
  /\ single' = [single EXCEPT
       !.cache = CacheAfterGet(single.cache, key, single.now),
       !.ops = @ + 1, !.op = "get", !.key = key, !.value = 0,
       !.got = CacheGet(single.cache, key, single.now),
       !.before = single.cache,
       !.read = IF CacheGet(single.cache, key, single.now) # <<>>
                THEN @ \cup {key} ELSE @]
  /\ UNCHANGED <<engineVars, libVars, lod, view, zoomPan, worker>>

\* cache.clear()
DataCache_clear ==
  /\ single.pc = "cache" /\ single.ops < MaxOps
  /\ single' = [single EXCEPT
       !.cache = <<>>, !.ops = @ + 1, !.op = "clear", !.key = "", !.value = 0,
       !.got = <<>>, !.before = single.cache, !.sets = <<>>, !.read = {}]
  /\ UNCHANGED <<engineVars, libVars, lod, view, zoomPan, worker>>

\* time passes
DataCache_tick ==
  /\ single.pc = "cache" /\ single.now < MaxTime
  /\ single' = [single EXCEPT !.now = @ + 1, !.op = "tick", !.key = "",
                              !.value = 0, !.got = <<>>, !.before = single.cache]
  /\ UNCHANGED <<engineVars, libVars, lod, view, zoomPan, worker>>

CacheNext ==
  \/ \E key \in CacheKeys, value \in CacheValues : DataCache_set(key, value)
  \/ \E key \in CacheKeys : DataCache_get(key)
  \/ DataCache_clear
  \/ DataCache_tick

CacheSpec == CacheInit /\ [][CacheNext]_vars

CachedKeys(c) == {c[n].key : n \in 1..Len(c)}

\* the place of the last set of key among the sets listed
LastSet(sets, key) ==
  CHOOSE n \in 1..Len(sets) :
    sets[n] = key /\ \A m \in (n + 1)..Len(sets) : sets[m] # key

\* the key of c whose last set came first
EarliestInserted(c, sets) ==
  CHOOSE k \in CachedKeys(c) :
    \A j \in CachedKeys(c) : LastSet(sets, k) <= LastSet(sets, j)

(* C33: the cache never holds more than maxSize entries, nor two entries
   under one key; a set of a new key on a full cache removes exactly the
   entry whose insertion came first, whatever gets came in between, and
   leaves the new key with its value. *)
C33_BoundedInsertionOrder ==
  single.pc = "cache" =>
    /\ CacheSize(single.cache) <= maxCacheSize
    /\ Cardinality(CachedKeys(single.cache)) = Len(single.cache)
    /\ single.op = "set" /\ single.key \notin CachedKeys(single.before)
         /\ Len(single.before) >= maxCacheSize
         => /\ CachedKeys(single.cache) =
                 (CachedKeys(single.before)
                    \ {EarliestInserted(single.before, SubSeq(single.sets, 1, Len(single.sets) - 1))})
                 \cup {single.key}
            /\ CacheGet(single.cache, single.key, single.now) = <<single.value>>
            /\ \A k \in CachedKeys(single.cache) \ {single.key} :
                 CacheEntry(single.cache, k) = CacheEntry(single.before, k)

\* a new key has been set on a full cache and the entry removed is one
\* whose value a get returned after the other entries were inserted
C33_Witness ==
  /\ single.pc = "cache" /\ single.op = "set"
  /\ Len(single.before) = maxCacheSize
  /\ single.key \notin CachedKeys(single.before)
  /\ \E k \in single.read : k \in CachedKeys(single.before) \ CachedKeys(single.cache)
  /\ CacheGet(single.cache, single.key, single.now) = <<single.value>>

-----------------------------------------------------------------------------
\* call c enters loadData in this step, with caching, while the cache holds
\* an entry under its key that is older than its ttl
StartsOnExpired(c) ==
  /\ calls[c].pc = "idle" /\ calls'[c].pc # "idle"
  /\ InputTable[calls'[c].inp].api = "engine"
  /\ Options(calls'[c]).cache
  /\ CacheHas(cache, calls'[c].key)
  /\ now - CacheEntry(cache, calls'[c].key).insertedAt > CacheEntry(cache, calls'[c].key).ttl

\* the entry under key is written in this step although the key was cached
SetOnExisting(key) ==
  /\ CacheHas(cache, key) /\ CacheHas(cache', key)
  /\ CacheEntry(cache', key) # CacheEntry(cache, key)

(* C34: a loadData call that finds an entry older than its ttl under its
   key is not served from the cache: it counts a cache miss and no hit, the
   old entry is gone from the cache, and a package the call returns in
   the same step is one it has just loaded; and when a package is set under a key that is already cached,
   the cache holds one entry under the key, with the new package and the
   current time as its insertion time. *)
C34_ExpiryAndReplace ==
  [][ /\ \A c \in Calls : StartsOnExpired(c) =>
           /\ metrics'.cacheMisses = metrics.cacheMisses + 1
           /\ metrics'.cacheHits = metrics.cacheHits
           /\ ~calls'[c].fromCache
           /\ \/ ~CacheHas(cache', calls'[c].key)
              \/ CacheEntry(cache', calls'[c].key).insertedAt = now
           /\ calls'[c].pc = "done" =>
                /\ calls'[c].ret[1].metadata.loadedAt = now
                /\ metrics'.totalLoaded = metrics.totalLoaded + 1
      /\ \A c \in Calls : SetOnExisting(calls[c].key) =>
           LET key == calls[c].key
           IN  /\ Cardinality({n \in 1..Len(cache') : cache'[n].key = key}) = 1
               /\ CacheEntry(cache', key).insertedAt = now
               /\ \E d \in Calls : /\ calls[d].pc # "done" /\ calls'[d].pc = "done"
                                   /\ calls'[d].key = key
                                   /\ calls'[d].ret = <<CacheEntry(cache', key).value>>
    ]_vars

\* a package was cached, its ttl ran out, and a second call with the same
\* key has loaded the source again and cached its own package
C34_Witness ==
  \E c, d \in Calls :
    /\ c # d /\ calls[c].key = calls[d].key
    /\ calls[c].pc = "done" /\ calls[d].pc = "done"
    /\ InputTable[calls[c].inp].api = "engine" /\ InputTable[calls[d].inp].api = "engine"
    /\ ~calls[c].fromCache /\ ~calls[d].fromCache
    /\ Options(calls[c]).cache /\ Options(calls[d]).cache
    /\ ~clearedEvents
    /\ calls[d].startTime - calls[c].ret[1].metadata.loadedAt > ttl
    /\ metrics.cacheMisses = 2 /\ metrics.cacheHits = 0
    /\ CacheHas(cache, calls[d].key)
    /\ CacheEntry(cache, calls[d].key).value = calls[d].ret[1]

-----------------------------------------------------------------------------
\* the loadData calls that have started and not settled
InFlight ==
  {c \in Calls : calls[c].pc \notin {"idle", "done", "failed"}
                   /\ InputTable[calls[c].inp].api = "engine"}

(* C35: isLoading is true whenever a loadData call has started and not yet
   settled, and false when no loadData call is in flight. *)
C35_LoadingFlag == isLoading = (InFlight # {})

-----------------------------------------------------------------------------
\* the data loadData returns for an in-memory array when nothing is cached:
\* every item transformed, then normalized (lines 151-160)
UncachedData(source, options) ==
  _normalizeData(
    IF options.transform = "none" THEN source
    ELSE [t |-> "array",
          v |-> [n \in 1..Len(source.v) |-> TransformItem(options.transform, source.v[n])]])

\* call d ran the load that call c would run with caching disabled: the
\* same source, format and transform function (headers and timeout may
\* differ), and it was not served from the cache itself
SameLoad(c, d) ==
  /\ d # c /\ calls[d].pc = "done" /\ ~calls[d].fromCache
  /\ InputTable[calls[d].inp].api = "engine"
  /\ Source(calls[d]) = Source(calls[c])
  /\ Options(calls[d]).format = Options(calls[c]).format
  /\ Options(calls[d]).transform = Options(calls[c]).transform

(* C36: a loadData call served from the cache returns the data the same
   call returns with caching disabled: for an in-memory array, the array
   with the call's own transform applied to every item and then
   normalized; for a URL, the package of a load of the same source with
   the same format and the same transform function. *)
C36_CacheTransparent ==
  \A c \in Calls :
    calls[c].pc = "done" /\ calls[c].fromCache =>
      IF Source(calls[c]).t = "array"
      THEN calls[c].ret[1].data = UncachedData(Source(calls[c]), Options(calls[c]))
      ELSE \E d \in Calls : SameLoad(c, d) /\ calls[d].ret = calls[c].ret

-----------------------------------------------------------------------------
\* the types of the events call c has emitted, in order
Emitted(c) == [n \in 1..Len(calls[c].events) |-> calls[c].events[n].type]

(* C37: a loadData call emits loadStart first; while it is in flight it
   has emitted nothing else; it resolves having emitted loadStart and then
   loadComplete and nothing more, or rejects having emitted loadStart and
   then loadError and nothing more; what it has emitted is never taken back
   or added to once it has settled; and every call that has started
   settles. *)
C37_OneOutcomeEvent ==
  /\ [](\A c \in Calls : EngineCall(c) =>
          CASE calls[c].pc = "done" ->
                 /\ Emitted(c) = <<"loadStart", "loadComplete">>
                 /\ calls[c].ret # <<>> /\ calls[c].err = <<>>
                 /\ calls[c].events[2].data = calls[c].ret[1]
            [] calls[c].pc = "failed" ->
                 /\ Emitted(c) = <<"loadStart", "loadError">>
                 /\ calls[c].err # <<>> /\ calls[c].ret = <<>>
                 /\ calls[c].events[2].error = calls[c].err[1]
            [] OTHER -> Emitted(c) = <<"loadStart">>)
  /\ [][\A c \in Calls :
          calls[c].pc \in {"done", "failed"} => calls'[c] = calls[c]]_vars
  /\ \A c \in Calls :
       (EngineCall(c) /\ calls[c].pc \notin {"idle", "done", "failed"})
         ~> (calls[c].pc \in {"done", "failed"})

\* one call has resolved after a suspension and another has rejected
C37_Witness ==
  \E c, d \in Calls :
    /\ EngineCall(c) /\ calls[c].pc = "done" /\ ~calls[c].fromCache
    /\ Source(calls[c]).t = "string"
    /\ Emitted(c) = <<"loadStart", "loadComplete">>
    /\ EngineCall(d) /\ calls[d].pc = "failed"
    /\ Emitted(d) = <<"loadStart", "loadError">>

-----------------------------------------------------------------------------
\* zoom lies between the configured limits
WithinZoomLimits(z, zoom) ==
  ~Less(zoom, z.options.minZoom) /\ ~Less(z.options.maxZoom, zoom)

(* C38: in every state of a ZoomPan instance, from its construction on,
   minZoom <= zoomLevel <= maxZoom for the options it was constructed
   with, and every onZoom callback notified is given a zoom within these
   limits. *)
C38_ZoomWithinLimits ==
  zoomPan.pc = "ready" =>
    /\ WithinZoomLimits(zoomPan, zoomPan.zoomLevel)
    /\ \A i \in 1..Len(zoomPan.notified) :
         zoomPan.notified[i].event = "onZoom"
           => WithinZoomLimits(zoomPan, zoomPan.notified[i].data.zoom)

-----------------------------------------------------------------------------
\* a callback of event is notified in this step
Notifies(event) ==
  \E i \in 1..Len(zoomPan'.notified) : zoomPan'.notified[i].event = event

(* C39: on an instance with callbacks registered, a pointer event notifies
   onInteractionStart only when no drag is under way, and isDragging is
   true after it; it notifies onInteractionEnd only when a drag is under
   way, and isDragging is false after it; isDragging changes in no other
   pointer event; and onPan is notified only during a drag.  (So starts and
   ends alternate, beginning with a start, and isDragging is true exactly
   between a start and its end.) *)
C39_InteractionsAlternate ==
  [][ZoomPanStep(PointerEvents) /\ zoomPan.callbacks = SomeCallbacks =>
       /\ Notifies("onInteractionStart") => ~zoomPan.isDragging /\ zoomPan'.isDragging
       /\ Notifies("onInteractionEnd") => zoomPan.isDragging /\ ~zoomPan'.isDragging
       /\ zoomPan'.isDragging # zoomPan.isDragging
            => Notifies("onInteractionStart") \/ Notifies("onInteractionEnd")
       /\ Notifies("onPan") => zoomPan.isDragging /\ zoomPan'.isDragging
    ]_vars

-----------------------------------------------------------------------------
(* CanvasChart: calculateDataBounds and renderPoints on their own, on the
   data a setData call has stored.

   Coordinates are JavaScript numbers (IEEE 754 doubles).  A number is kept
   as [h, r], two exact rationals, and stands for h * 2^60 + r.  Doubles
   near 2^60 are 256 apart, and the r of the model stay below 8 in
   magnitude, so the result of an addition or subtraction whose h is not 0
   is rounded to h * 2^60: its r is lost.  Numbers with h = 0 are the
   small ones, computed exactly. *)

MaxData == 3

JsNum(n) == [h |-> Num(0), r |-> Num(n)]

\* 2^60
Huge == [h |-> Num(1), r |-> Num(0)]

\* the double nearest to h * 2^60 + r
Rounded(h, r) == IF h # Num(0) THEN [h |-> h, r |-> Num(0)] ELSE [h |-> h, r |-> r]

JsPlus(a, b) == Rounded(Plus(a.h, b.h), Plus(a.r, b.r))

JsMinus(a, b) == Rounded(Minus(a.h, b.h), Minus(a.r, b.r))

\* a * k for a small constant k (the padding 0.1, the size of the drawing
\* area)
JsScaled(a, k) == Rounded(Times(a.h, k), Times(a.r, k))

JsLess(a, b) == Less(a.h, b.h) \/ (a.h = b.h /\ Less(a.r, b.r))

\* a / b; a division by 0 gives Infinity or NaN, kept as finite FALSE.
\* Dividing by a number with h # 0 leaves the quotient of the h (the r of
\* the numerator is below the precision of the result).
JsDivide(a, b) ==
  IF b = JsNum(0) THEN [finite |-> FALSE, v |-> JsNum(0)]
  ELSE IF b.h # Num(0) THEN [finite |-> TRUE, v |-> [h |-> Num(0), r |-> Over(a.h, b.h)]]
  ELSE [finite |-> TRUE, v |-> Rounded(Over(a.h, b.r), Over(a.r, b.r))]

\* the coordinates of the points given
Coordinates == {JsNum(-2), JsNum(0), JsNum(3), Huge}

DataSets ==
  UNION {[1..k -> [x : Coordinates, y : Coordinates]] : k \in 0..MaxData}

\* the drawing area of render() for the default configuration (lines 33-38
\* and 106-111): an 800 x 600 canvas with a padding of 20 on every side
DefaultDrawArea == [x |-> 20, y |-> 20, width |-> 800 - 20 - 20, height |-> 600 - 20 - 20]

\* Math.min(...values) and Math.max(...values) of a non-empty array
MinOf(values) ==
  CHOOSE m \in {values[n] : n \in 1..Len(values)} :
    \A n \in 1..Len(values) : ~JsLess(values[n], m)

MaxOf(values) ==
  CHOOSE m \in {values[n] : n \in 1..Len(values)} :
    \A n \in 1..Len(values) : ~JsLess(m, values[n])

\* CanvasChart.calculateDataBounds()
calculateDataBounds(data) ==
  IF Len(data) = 0
  THEN [minX |-> JsNum(0), maxX |-> JsNum(1), minY |-> JsNum(0), maxY |-> JsNum(1)]
  ELSE LET xs == [n \in 1..Len(data) |-> data[n].x]
           ys == [n \in 1..Len(data) |-> data[n].y]
           xRange == IF JsMinus(MaxOf(xs), MinOf(xs)) # JsNum(0)
                     THEN JsMinus(MaxOf(xs), MinOf(xs)) ELSE JsNum(1)
           yRange == IF JsMinus(MaxOf(ys), MinOf(ys)) # JsNum(0)
                     THEN JsMinus(MaxOf(ys), MinOf(ys)) ELSE JsNum(1)
           padding == Frac(1, 10)
       IN  [minX |-> JsMinus(MinOf(xs), JsScaled(xRange, padding)),
            maxX |-> JsPlus(MaxOf(xs), JsScaled(xRange, padding)),
            minY |-> JsMinus(MinOf(ys), JsScaled(yRange, padding)),
            maxY |-> JsPlus(MaxOf(ys), JsScaled(yRange, padding))]

\* CanvasChart.renderPoints(drawArea, bounds): the centre of the arc drawn
\* for each point
renderPoints(data, drawArea, bounds) ==
  [n \in 1..Len(data) |->
     LET fx == JsDivide(JsMinus(data[n].x, bounds.minX), JsMinus(bounds.maxX, bounds.minX))
         fy == JsDivide(JsMinus(data[n].y, bounds.minY), JsMinus(bounds.maxY, bounds.minY))
     IN  [finite |-> fx.finite /\ fy.finite,
          canvasX |-> JsPlus(JsNum(drawArea.x), JsScaled(fx.v, Num(drawArea.width))),
          canvasY |-> JsMinus(JsNum(drawArea.y + drawArea.height),
                              JsScaled(fy.v, Num(drawArea.height)))]]

BoundsInit ==
  /\ EngineInit /\ validateData = TRUE /\ LibRest
  /\ lod = NoLOD /\ view = NoView /\ zoomPan = NoZoomPan /\ worker = NoWorker
  /\ \E data \in DataSets :
       single = [pc |-> "data", data |-> data,
                 bounds |-> [minX |-> JsNum(0), maxX |-> JsNum(0),
                             minY |-> JsNum(0), maxY |-> JsNum(0)],
                 drawn |-> <<>>]

\* const bounds = this.calculateDataBounds()
CanvasChart_calculateDataBounds ==
  /\ single.pc = "data"
  /\ single' = [single EXCEPT !.pc = "bounds",
                              !.bounds = calculateDataBounds(single.data)]
  /\ UNCHANGED <<engineVars, libVars, lod, view, zoomPan, worker>>

\* this.renderPoints(drawArea, bounds)
CanvasChart_renderPoints ==
  /\ single.pc = "bounds"
  /\ single' = [single EXCEPT
       !.pc = "drawn",
       !.drawn = renderPoints(single.data, DefaultDrawArea, single.bounds)]
  /\ UNCHANGED <<engineVars, libVars, lod, view, zoomPan, worker>>

BoundsNext == CanvasChart_calculateDataBounds \/ CanvasChart_renderPoints

BoundsSpec == BoundsInit /\ [][BoundsNext]_vars

\* a <= b
AtMost(a, b) == ~JsLess(b, a)

\* the bounds are not degenerate and contain the data; what is drawn is
\* drawn at a finite position inside the drawing area
BoundsFit ==
  /\ single.pc \in {"bounds", "drawn"} =>
       /\ JsLess(single.bounds.minX, single.bounds.maxX)
       /\ JsLess(single.bounds.minY, single.bounds.maxY)
       /\ \A n \in 1..Len(single.data) :
            /\ AtMost(single.bounds.minX, single.data[n].x)
            /\ AtMost(single.data[n].x, single.bounds.maxX)
            /\ AtMost(single.bounds.minY, single.data[n].y)
            /\ AtMost(single.data[n].y, single.bounds.maxY)
  /\ single.pc = "drawn" =>
       /\ Len(single.drawn) = Len(single.data)
       /\ \A n \in 1..Len(single.drawn) :
            /\ single.drawn[n].finite
            /\ AtMost(JsNum(DefaultDrawArea.x), single.drawn[n].canvasX)
            /\ AtMost(single.drawn[n].canvasX,
                      JsNum(DefaultDrawArea.x + DefaultDrawArea.width))
            /\ AtMost(JsNum(DefaultDrawArea.y), single.drawn[n].canvasY)
            /\ AtMost(single.drawn[n].canvasY,
                      JsNum(DefaultDrawArea.y + DefaultDrawArea.height))

(* C40: the bounds calculateDataBounds returns have minX < maxX and
   minY < maxY and contain every point of the data, whatever the data
   (none, one point, points with one x or one y); and renderPoints, given
   these bounds, divides by no zero: every point is drawn at a finite
   position inside the drawing area. *)
C40_BoundsNonDegenerate == single.pc \in {"data", "bounds", "drawn"} => BoundsFit
=============================================================================
